---- MODULE Spec2Model ----
(***************************************************************************)
(* Verification model of the shanghai-run-fan services.                    *)
(*                                                                         *)
(* Numbers.  The TypeScript code computes with JavaScript numbers.  The    *)
(* model computes with integers in fixed point:                            *)
(*   - a score s in [0,2] is the integer s * SCALE;                        *)
(*   - a distance of d km is the integer 10*d (tenths of a km);            *)
(*   - an avg_rating / preference value v is the integer 10*v (tenths).    *)
(* Every quotient is taken with ExactDiv, which is undefined (TLC stops    *)
(* with an error) when the division leaves a remainder, so every value the *)
(* model computes is the exact real value of the source expression.        *)
(***************************************************************************)
EXTENDS Integers, Sequences, FiniteSets, TLC

SCALE == 36 * 1000000

ExactDiv(a, b) == CHOOSE q \in {a \div b} : q * b = a

Min(a, b) == IF a <= b THEN a ELSE b
Max(a, b) == IF a >= b THEN a ELSE b
Abs(a) == IF a < 0 THEN 0 - a ELSE a

\* k hundredths as a score: Pct(25) is 0.25
Pct(k) == k * (SCALE \div 100)

\* an optional value (null | v) is the sequence <<>> or <<v>>
None == <<>>
Some(v) == <<v>>
IsSome(o) == Len(o) = 1
Val(o) == o[1]

(***************************************************************************)
(* Bounds of the model.                                                    *)
(***************************************************************************)
MaxLimit == 2
MaxDbRoutes == 3
MaxFeedback == 2

(***************************************************************************)
(* Routes: the built-in catalog and the rows the routes table may hold.    *)
(***************************************************************************)
\* A fallback route.  Its weather_suitability object has the keys rain, sun
\* and wind, so the .sunny and .rainy reads of calculateWeatherMatch are
\* undefined (falsy); its features value is an array of strings, so the
\* .shade, .indoor, .scenic and .facilities reads are undefined (falsy).
FallbackRoute(id, dist, diff, avg, safety, light, m, a, e, n) ==
  [id |-> id, distance |-> dist, difficulty_level |-> diff,
   terrain_type |-> "flat", avg_rating |-> avg, safety_rating |-> safety,
   lighting_quality |-> light,
   weather_suitability |-> Some([sunny |-> FALSE, rainy |-> FALSE]),
   time_suitability |-> Some([morning |-> m, afternoon |-> a, evening |-> e, night |-> n]),
   features |-> [shade |-> FALSE, indoor |-> FALSE, scenic |-> FALSE, facilities |-> FALSE]]

getFallbackRoutes ==
  << FallbackRoute("route-1", 52, 3, 46, 9, "excellent", 90, 80, 95, 85),
     FallbackRoute("route-2", 38, 2, 44, 8, "good", 95, 70, 80, 40),
     FallbackRoute("route-3", 25, 1, 42, 9, "excellent", 80, 90, 85, 70),
     FallbackRoute("route-4", 28, 2, 43, 8, "good", 80, 80, 90, 60),
     FallbackRoute("route-5", 18, 1, 41, 7, "fair", 95, 60, 70, 30),
     FallbackRoute("route-6", 45, 3, 45, 9, "excellent", 80, 80, 95, 90),
     FallbackRoute("route-7", 32, 2, 40, 8, "good", 90, 70, 80, 50),
     FallbackRoute("route-8", 85, 5, 47, 8, "good", 90, 70, 80, 60) >>

\* Rows of the routes table, in the order the query returns them
\* (avg_rating descending).  db-2 and db-3 differ in their id only.
DbRoute(id, dist, diff, terrain, avg, safety, light, ws, ts, shade, indoor, scenic, fac) ==
  [id |-> id, distance |-> dist, difficulty_level |-> diff,
   terrain_type |-> terrain, avg_rating |-> avg, safety_rating |-> safety,
   lighting_quality |-> light, weather_suitability |-> ws, time_suitability |-> ts,
   features |-> [shade |-> shade, indoor |-> indoor, scenic |-> scenic, facilities |-> fac]]

DbRoutePool ==
  << DbRoute("db-1", 100, 8, "trail", 50, 4, "poor", None, None,
             FALSE, FALSE, FALSE, FALSE),
     DbRoute("db-2", 50, 7, "road", 45, 10, "excellent",
             Some([sunny |-> TRUE, rainy |-> TRUE]),
             Some([morning |-> 90, evening |-> 80]), TRUE, FALSE, TRUE, FALSE),
     DbRoute("db-3", 50, 7, "road", 45, 10, "excellent",
             Some([sunny |-> TRUE, rainy |-> TRUE]),
             Some([morning |-> 90, evening |-> 80]), TRUE, FALSE, TRUE, FALSE),
     DbRoute("db-4", 30, 2, "park", 30, 5, "good",
             Some([sunny |-> FALSE, rainy |-> TRUE]),
             Some([morning |-> 0, night |-> 70]), FALSE, TRUE, FALSE, TRUE),
     DbRoute("db-5", 20, 4, "park", 20, 0, "good",
             Some([sunny |-> TRUE, rainy |-> FALSE]),
             Some([evening |-> 60]), FALSE, FALSE, FALSE, FALSE) >>

DbCatalogs == { SubSeq(DbRoutePool, 1, n) : n \in 0..Min(MaxDbRoutes, Len(DbRoutePool)) }

(***************************************************************************)
(* user_preferences rows.  A column value is null, a band name, a number   *)
(* (in tenths) or NaN.                                                     *)
(***************************************************************************)
Null == [kind |-> "null", band |-> "", num |-> 0]
Band(b) == [kind |-> "band", band |-> b, num |-> 0]
Num(n) == [kind |-> "num", band |-> "", num |-> n]
NaN == [kind |-> "nan", band |-> "", num |-> 0]

PrefRow(fit, dp, range, terrains, si, sc) ==
  [fitness_level |-> fit, difficulty_preference |-> dp, distance_range |-> range,
   terrain_preferences |-> terrains, safety_importance |-> si,
   scenery_importance |-> sc]

\* the row an upsert creates when the user has none: every other column null
\* (a null fitness_level is 0 in arithmetic, a null terrain list matches nothing)
EmptyPrefRow == PrefRow(0, Null, None, {}, Null, Null)

ProfilePool ==
  { PrefRow(3, Band("easy"), Some([min |-> 30, max |-> 90]), {"flat", "park"}, Null, Null),
    PrefRow(6, Band("hard"), Some([min |-> 60, max |-> 100]), {"road"}, Num(50), Num(100)),
    PrefRow(5, Num(56), None, {}, Num(10), Num(50)) }

(***************************************************************************)
(* running_history rows (newest first); 0 stands for a missing effort or   *)
(* rating.                                                                 *)
(***************************************************************************)
Run(route, dist, effort, rating) ==
  [route_id |-> route, distance |-> dist, effort_level |-> effort, user_rating |-> rating]

HistoryPool ==
  { << >>,
    << Run("db-2", 50, 5, 5), Run("route-1", 52, 0, 4), Run("db-4", 30, 4, 0) >>,
    << Run("route-3", 25, 2, 2) >> }

(***************************************************************************)
(* Inputs of generateRecommendations.                                      *)
(***************************************************************************)
Weather(t, c, h, w) == [temperature |-> t, condition |-> c, humidity |-> h, windSpeed |-> w]

WeatherPool ==
  { Weather(20, "clear", 55, 5),
    Weather(33, "rain", 85, 25),
    Weather(0 - 300, "bogus", 150, 0 - 5) }

TimePool == {"morning", "night", "bogus"}

(***************************************************************************)
(* weatherService.getWeatherSuitabilityScore                               *)
(***************************************************************************)
\* the keys of weatherConditionMap
WeatherConditions == {"clear", "sunny", "partly-cloudy", "cloudy", "overcast",
                      "light-rain", "rain", "heavy-rain", "snow", "fog", "windy"}

\* the readings getWeatherSuitabilityScore is applied to: every band edge of
\* temperature and humidity, every wind speed up to MaxWind, every condition
\* and one that is not a condition
MaxWind == 22

TemperaturePool == {0 - 300, 4, 5, 9, 10, 14, 15, 20, 25, 26, 30, 31, 35, 36}

HumidityPool == {0 - 5, 29, 30, 39, 40, 55, 70, 71, 80, 81, 150}

WindPool == (0 - 1)..MaxWind

ConditionPool == WeatherConditions \cup {"bogus"}

\* the four band multipliers, in tenths
temperatureFactor(t) ==
  IF t >= 15 /\ t <= 25 THEN 10
  ELSE IF t >= 10 /\ t <= 30 THEN 8
  ELSE IF t >= 5 /\ t <= 35 THEN 6
  ELSE 3

\* conditionFactor with rain in the case of light-rain
conditionFactorRainAsLight(c) ==
  CASE c \in {"clear", "sunny", "partly-cloudy"} -> 10
    [] c \in {"cloudy", "overcast"} -> 9
    [] c \in {"light-rain", "rain"} -> 4
    [] c = "heavy-rain" -> 1
    [] c \in {"snow", "fog"} -> 2
    [] OTHER -> 7

conditionFactor(c) ==
  CASE c \in {"clear", "sunny", "partly-cloudy"} -> 10
    [] c \in {"cloudy", "overcast"} -> 9
    [] c = "light-rain" -> 4
    [] c \in {"rain", "heavy-rain"} -> 1
    [] c \in {"snow", "fog"} -> 2
    [] OTHER -> 7

\* windFactor with the multipliers of the second and third band exchanged
windFactorSwapped(w) ==
  IF w <= 10 THEN 10 ELSE IF w <= 20 THEN 5 ELSE 8

windFactor(w) ==
  IF w <= 10 THEN 10 ELSE IF w <= 20 THEN 8 ELSE 5

humidityFactor(h) ==
  IF h >= 40 /\ h <= 70 THEN 10
  ELSE IF h >= 30 /\ h <= 80 THEN 9
  ELSE 7

getWeatherSuitabilityScore(weather) ==
  LET score == (SCALE \div 10000)
                 * temperatureFactor(weather.temperature)
                 * conditionFactor(weather.condition)
                 * windFactor(weather.windSpeed)
                 * humidityFactor(weather.humidity)
  IN  Max(0, Min(SCALE, score))

(***************************************************************************)
(* RecommendationEngine: the signal calculators                            *)
(***************************************************************************)
difficultyMap(pref) ==
  CASE pref.kind = "band" /\ pref.band = "easy" -> {1, 2, 3}
    [] pref.kind = "band" /\ pref.band = "moderate" -> {4, 5, 6}
    [] pref.kind = "band" /\ pref.band = "hard" -> {7, 8, 9, 10}
    [] OTHER -> {4, 5, 6}

\* profile is the engine's userProfile field (None | Some(row))
\* calculateUserRouteMatch returning the sum, not the sum over the factor count
calculateUserRouteMatchNoDivide(route, profile) ==
  IF ~IsSome(profile) THEN Pct(50)
  ELSE
    LET p == Val(profile)
        hasRange == IsSome(p.distance_range)
        r == Val(p.distance_range)
        distTerm ==
          IF ~hasRange THEN 0
          ELSE IF route.distance >= r.min /\ route.distance <= r.max THEN Pct(25)
          ELSE IF route.distance < r.min
            THEN Max(0, ExactDiv(Pct(25) * route.distance, r.min))
            ELSE Max(0, ExactDiv(Pct(25) * r.max, route.distance))
        terrainTerm == IF route.terrain_type \in p.terrain_preferences THEN Pct(20) ELSE 0
        difficultyTerm ==
          IF route.difficulty_level \in difficultyMap(p.difficulty_preference)
            THEN Pct(20) ELSE 0
        levelDiff == Abs(p.fitness_level - route.difficulty_level)
        fitnessTerm ==
          IF levelDiff <= 1 THEN Pct(15)
          ELSE IF levelDiff <= 2 THEN Pct(10)
          ELSE IF levelDiff <= 3 THEN Pct(5)
          ELSE 0
        score == distTerm + terrainTerm + difficultyTerm + fitnessTerm
        factors == (IF hasRange THEN 1 ELSE 0) + 3
    IN  IF factors > 0 THEN score ELSE Pct(50)

calculateUserRouteMatch(route, profile) ==
  IF ~IsSome(profile) THEN Pct(50)
  ELSE
    LET p == Val(profile)
        hasRange == IsSome(p.distance_range)
        r == Val(p.distance_range)
        distTerm ==
          IF ~hasRange THEN 0
          ELSE IF route.distance >= r.min /\ route.distance <= r.max THEN Pct(25)
          ELSE IF route.distance < r.min
            THEN Max(0, ExactDiv(Pct(25) * route.distance, r.min))
            ELSE Max(0, ExactDiv(Pct(25) * r.max, route.distance))
        terrainTerm == IF route.terrain_type \in p.terrain_preferences THEN Pct(20) ELSE 0
        difficultyTerm ==
          IF route.difficulty_level \in difficultyMap(p.difficulty_preference)
            THEN Pct(20) ELSE 0
        levelDiff == Abs(p.fitness_level - route.difficulty_level)
        fitnessTerm ==
          IF levelDiff <= 1 THEN Pct(15)
          ELSE IF levelDiff <= 2 THEN Pct(10)
          ELSE IF levelDiff <= 3 THEN Pct(5)
          ELSE 0
        score == distTerm + terrainTerm + difficultyTerm + fitnessTerm
        factors == (IF hasRange THEN 1 ELSE 0) + 3
    IN  IF factors > 0 THEN ExactDiv(score, factors) ELSE Pct(50)

RECURSIVE SumOver(_, _)
\* sum of f[i] for i in 1..Len(f)
SumOver(f, n) == IF n = 0 THEN 0 ELSE f[n] + SumOver(f, n - 1)

\* calculateHistoryMatch returning 0 for an empty history
calculateHistoryMatchZeroWhenEmpty(route, history) ==
  IF Len(history) = 0 THEN 0
  ELSE
    LET n == Len(history)
        sumDistance == SumOver([i \in 1..n |-> history[i].distance], n)
        sumEffort == SumOver([i \in 1..n |->
                       IF history[i].effort_level # 0 THEN history[i].effort_level ELSE 5], n)
        sumRating == SumOver([i \in 1..n |->
                       IF history[i].user_rating # 0 THEN history[i].user_rating ELSE 3], n)
        \* |route.distance - avgDistance| in units of 1/(10 n) km
        distanceDiff == Abs(route.distance * n - sumDistance)
        distanceTerm ==
          IF distanceDiff <= 10 * n THEN Pct(30)
          ELSE IF distanceDiff <= 20 * n THEN Pct(20)
          ELSE IF distanceDiff <= 30 * n THEN Pct(10)
          ELSE 0
        \* Math.round(avgEffort): half rounds up
        expectedDifficulty == (2 * sumEffort + n) \div (2 * n)
        difficultyDiff == Abs(route.difficulty_level - expectedDifficulty)
        difficultyTerm ==
          IF difficultyDiff <= 1 THEN Pct(30)
          ELSE IF difficultyDiff <= 2 THEN Pct(20)
          ELSE 0
        ratingTerm == IF sumRating >= 4 * n THEN Pct(20) ELSE 0
    IN  Min(SCALE, distanceTerm + difficultyTerm + ratingTerm)

calculateHistoryMatch(route, history) ==
  IF Len(history) = 0 THEN Pct(50)
  ELSE
    LET n == Len(history)
        sumDistance == SumOver([i \in 1..n |-> history[i].distance], n)
        sumEffort == SumOver([i \in 1..n |->
                       IF history[i].effort_level # 0 THEN history[i].effort_level ELSE 5], n)
        sumRating == SumOver([i \in 1..n |->
                       IF history[i].user_rating # 0 THEN history[i].user_rating ELSE 3], n)
        \* |route.distance - avgDistance| in units of 1/(10 n) km
        distanceDiff == Abs(route.distance * n - sumDistance)
        distanceTerm ==
          IF distanceDiff <= 10 * n THEN Pct(30)
          ELSE IF distanceDiff <= 20 * n THEN Pct(20)
          ELSE IF distanceDiff <= 30 * n THEN Pct(10)
          ELSE 0
        \* Math.round(avgEffort): half rounds up
        expectedDifficulty == (2 * sumEffort + n) \div (2 * n)
        difficultyDiff == Abs(route.difficulty_level - expectedDifficulty)
        difficultyTerm ==
          IF difficultyDiff <= 1 THEN Pct(30)
          ELSE IF difficultyDiff <= 2 THEN Pct(20)
          ELSE 0
        ratingTerm == IF sumRating >= 4 * n THEN Pct(20) ELSE 0
    IN  Min(SCALE, distanceTerm + difficultyTerm + ratingTerm)

calculateNoveltyScore(route, history) ==
  LET hasRun == \E i \in 1..Len(history) : history[i].route_id = route.id
      similarRuns == SelectSeq(history, LAMBDA run : FALSE)
  IN  IF hasRun THEN Pct(20)
      ELSE IF Len(similarRuns) = 0 THEN Pct(100)
      ELSE IF Len(similarRuns) <= 2 THEN Pct(80)
      ELSE Pct(60)

calculateWeatherMatch(route, weather) ==
  IF ~IsSome(route.weather_suitability) THEN Pct(50)
  ELSE
    LET ws == Val(route.weather_suitability)
        weatherSuitability == getWeatherSuitabilityScore(weather)
        \* routeWeatherScore in tenths
        base ==
          CASE weather.condition \in {"clear", "sunny"} -> IF ws.sunny THEN 10 ELSE 3
            [] weather.condition \in {"rain", "heavy-rain"} -> IF ws.rainy THEN 8 ELSE 1
            [] weather.condition \in {"cloudy", "partly-cloudy"} -> 9
            [] OTHER -> 7
        shadeBonus == IF weather.temperature > 30 /\ route.features.shade THEN 2 ELSE 0
        indoorBonus == IF weather.temperature < 10 /\ route.features.indoor THEN 3 ELSE 0
        routeWeatherScore == base + shadeBonus + indoorBonus
    IN  Min(SCALE, ExactDiv(routeWeatherScore * weatherSuitability, 10))

calculateTimeMatch(route, timeOfDay) ==
  IF ~IsSome(route.time_suitability) THEN Pct(50)
  ELSE
    LET tbl == Val(route.time_suitability)
        isTimeMatch == timeOfDay \in DOMAIN tbl /\ tbl[timeOfDay] # 0
    IN  IF isTimeMatch THEN Pct(100)
        ELSE IF timeOfDay = "night"
          THEN (IF route.lighting_quality = "excellent" THEN Pct(80)
                ELSE IF route.lighting_quality = "good" THEN Pct(60)
                ELSE Pct(20))
        ELSE Pct(50)

safetyScore(route) == (SCALE \div 5) * route.safety_rating

popularityScore(route) == Min(SCALE, (SCALE \div 50) * route.avg_rating)

\* confidenceScore with the weights of weatherMatch and timeMatch exchanged
confidenceScoreSwapped(userMatch, historyMatch, weatherMatch, timeMatch, safety, popularity, novelty) ==
    ExactDiv(userMatch * 25, 100)
  + ExactDiv(historyMatch * 20, 100)
  + ExactDiv(weatherMatch * 15, 100)
  + ExactDiv(timeMatch * 20, 100)
  + ExactDiv(safety * 10, 100)
  + ExactDiv(popularity * 5, 100)
  + ExactDiv(novelty * 5, 100)

\* the weighted sum of lines 498-506; the weights are hundredths
confidenceScore(userMatch, historyMatch, weatherMatch, timeMatch, safety, popularity, novelty) ==
    ExactDiv(userMatch * 25, 100)
  + ExactDiv(historyMatch * 20, 100)
  + ExactDiv(weatherMatch * 20, 100)
  + ExactDiv(timeMatch * 15, 100)
  + ExactDiv(safety * 10, 100)
  + ExactDiv(popularity * 5, 100)
  + ExactDiv(novelty * 5, 100)

\* reasonFactors with the time reason pushed before the weather reason
reasonFactorsTimeFirst(reasoning, popularity, route) ==
     (IF reasoning.time_match THEN <<"time">> ELSE <<>>)
  \o (IF reasoning.weather_match THEN <<"weather">> ELSE <<>>)
  \o (IF reasoning.difficulty_match THEN <<"difficulty">> ELSE <<>>)
  \o (IF reasoning.preference_match THEN <<"preference">> ELSE <<>>)
  \o (IF reasoning.novelty_factor THEN <<"novelty">> ELSE <<>>)
  \o (IF reasoning.safety_factor THEN <<"safety">> ELSE <<>>)
  \o (IF popularity > Pct(80) THEN <<"rated-high">> ELSE <<>>)
  \o (IF route.features.scenic THEN <<"scenic">> ELSE <<>>)
  \o (IF route.features.facilities THEN <<"facilities">> ELSE <<>>)

\* the reason strings, by the flag or observation that adds them
reasonFactors(reasoning, popularity, route) ==
     (IF reasoning.weather_match THEN <<"weather">> ELSE <<>>)
  \o (IF reasoning.time_match THEN <<"time">> ELSE <<>>)
  \o (IF reasoning.difficulty_match THEN <<"difficulty">> ELSE <<>>)
  \o (IF reasoning.preference_match THEN <<"preference">> ELSE <<>>)
  \o (IF reasoning.novelty_factor THEN <<"novelty">> ELSE <<>>)
  \o (IF reasoning.safety_factor THEN <<"safety">> ELSE <<>>)
  \o (IF popularity > Pct(80) THEN <<"rated-high">> ELSE <<>>)
  \o (IF route.features.scenic THEN <<"scenic">> ELSE <<>>)
  \o (IF route.features.facilities THEN <<"facilities">> ELSE <<>>)

\* recommendationType with the challenge test before the popular test
recommendationTypeChallengeFirst(reasoning, popularity, route, timeOfDay) ==
  IF reasoning.weather_match /\ reasoning.time_match /\ reasoning.difficulty_match
    THEN "perfect_match"
  ELSE IF route.difficulty_level >= 7 THEN "challenge"
  ELSE IF popularity > Pct(90) THEN "popular"
  ELSE IF reasoning.novelty_factor THEN "exploration"
  ELSE IF reasoning.safety_factor /\ timeOfDay = "night" THEN "safe_night"
  ELSE "general"

recommendationType(reasoning, popularity, route, timeOfDay) ==
  IF reasoning.weather_match /\ reasoning.time_match /\ reasoning.difficulty_match
    THEN "perfect_match"
  ELSE IF popularity > Pct(90) THEN "popular"
  ELSE IF route.difficulty_level >= 7 THEN "challenge"
  ELSE IF reasoning.novelty_factor THEN "exploration"
  ELSE IF reasoning.safety_factor /\ timeOfDay = "night" THEN "safe_night"
  ELSE "general"

\* the body of the for loop of generateRecommendations: one Recommendation
scoreRoute(route, profile, history, weather, timeOfDay) ==
  LET userMatch == calculateUserRouteMatch(route, profile)
      historyMatch == calculateHistoryMatch(route, history)
      noveltyScore == calculateNoveltyScore(route, history)
      weatherMatch == calculateWeatherMatch(route, weather)
      timeMatch == calculateTimeMatch(route, timeOfDay)
      safety == safetyScore(route)
      popularity == popularityScore(route)
      confidence == confidenceScore(userMatch, historyMatch, weatherMatch, timeMatch,
                                    safety, popularity, noveltyScore)
      reasoning == [weather_match |-> weatherMatch > Pct(70),
                    time_match |-> timeMatch > Pct(70),
                    difficulty_match |-> userMatch > Pct(60),
                    preference_match |-> userMatch > Pct(50),
                    novelty_factor |-> noveltyScore > Pct(80),
                    safety_factor |-> safety > Pct(80)]
  IN  [route |-> route,
       score |-> confidence,
       confidence_score |-> confidence,
       reasoning |-> reasoning,
       factors |-> reasonFactors(reasoning, popularity, route),
       recommendation_type |-> recommendationType(reasoning, popularity, route, timeOfDay),
       weather_factor |-> weather,
       time_factor |-> timeOfDay,
       difficulty_match_score |-> userMatch,
       preference_match_score |-> userMatch,
       novelty_score |-> noveltyScore]

\* insertByScore with the comparison >= written as >: an element goes before
\* the elements of equal score already placed
RECURSIVE insertByScoreUnstable(_, _)
insertByScoreUnstable(sorted, rec) ==
  IF sorted = <<>> THEN <<rec>>
  ELSE IF Head(sorted).confidence_score > rec.confidence_score
    THEN <<Head(sorted)>> \o insertByScoreUnstable(Tail(sorted), rec)
    ELSE <<rec>> \o sorted

\* Array.prototype.sort with (a, b) => b.confidence_score - a.confidence_score:
\* a stable sort; each element goes after every element already placed that
\* the comparator does not order after it.
RECURSIVE insertByScore(_, _)
insertByScore(sorted, rec) ==
  IF sorted = <<>> THEN <<rec>>
  ELSE IF Head(sorted).confidence_score >= rec.confidence_score
    THEN <<Head(sorted)>> \o insertByScore(Tail(sorted), rec)
    ELSE <<rec>> \o sorted

RECURSIVE sortByConfidence(_)
sortByConfidence(recs) ==
  IF recs = <<>> THEN <<>>
  ELSE insertByScore(sortByConfidence(SubSeq(recs, 1, Len(recs) - 1)), recs[Len(recs)])

\* slice with an end index one too far
sliceOneMore(s, limit) == SubSeq(s, 1, Min(limit + 1, Len(s)))

\* Array.prototype.slice(0, limit) for an integer limit
slice(s, limit) ==
  IF limit >= 0 THEN SubSeq(s, 1, Min(limit, Len(s)))
  ELSE SubSeq(s, 1, Max(0, Len(s) + limit))

\* lines 481-562: score every route, sort, truncate
rankRoutes(routes, profile, history, weather, timeOfDay, limit) ==
  LET recommendations ==
        [i \in 1..Len(routes) |-> scoreRoute(routes[i], profile, history, weather, timeOfDay)]
  IN  slice(sortByConfidence(recommendations), limit)

\* the user_activity_stats row of the user
ActivityRow == [total_runs |-> 3]

\* what one store request can do: answer, answer with an error (data null),
\* or make the awaited call throw
StoreOutcomes == {"ok", "error", "throw"}

(***************************************************************************)
(* Inputs of FeedbackService.submitFeedback and calculateNewPreference.    *)
(***************************************************************************)
Feedback(route, rating, difficulty, safety, scenery) ==
  [routeId |-> route, rating |-> rating, difficulty |-> difficulty,
   safety |-> safety, scenery |-> scenery]

FeedbackPool ==
  { Feedback("route-1", 5, 8, 0, 3),
    Feedback("route-2", 1, 1, 1, 0),
    Feedback("db-2", 4, 0, 7, 0),
    Feedback("route-1", 9, 60, 0, 0 - 4),
    Feedback("db-4", 0, 5, 0, 5) }

\* calculateNewPreference is applied to every prior value 0.1 .. MaxPrior/10,
\* every rating -MaxRating .. MaxRating and every overall rating 0 .. MaxOverall
MaxPrior == 110
MaxRating == 11
MaxOverall == 6

VARIABLES
  \* the store
  user_preferences,   \* None | Some(row)
  running_history,    \* rows of the user, newest first
  routesTable,        \* rows of routes, avg_rating descending
  route_feedback,     \* the rows inserted, oldest first
  \* RecommendationEngine fields
  userProfile, userActivity, runningHistory,
  \* one generateRecommendations call
  genPc,         \* "idle", the awaited step, or "done"
  genArgs,       \* [weather, timeOfDay, limit]
  genLoadFailed, \* a profile or history load failed in this call
  genRoutesOutcome, \* what the routes query did in this call
  genRoutes,     \* the local routes
  genSettled,    \* "pending" | "resolved" | "rejected"
  genResult,     \* the list the call resolved with
  genTrace,      \* what each store request of this call did, in order
  genFirst,      \* None | Some(the first call of this engine object)
  \* one getWeatherSuitabilityScore application
  wxArgs, wxOut,
  \* a second FeedbackService.submitFeedback call, in flight with the first
  fb2Pc, fb2Args, fb2Existing,
  route_recommendations, \* the columns set on the user's recommendation rows
  applied,       \* the three dimensions of every row value written or found
  \* LocationService
  locationBuffer,   \* the records pushed and not yet reset, oldest first
  batchTimer,       \* "none" | "armed" | "fired"
  locFlights,       \* the bodies of the inserts awaiting their answer
  location_history, \* per record, the number of successful inserts holding it
  locPushed,        \* records passed to batchSaveLocation so far
  \* EmergencyService
  activeEmergency,   \* 0 for null, else the id of the event held
  emergency_events,  \* per id, "none" or the status of the row
  emergency_contacts, \* the number of contacts stored
  alertTimers,       \* the ids whose delayed sendEmergencyAlerts is pending
  alertRuns,         \* per id, the position and alerts of sendEmergencyAlerts(id)
  emergency_alerts,  \* the rows inserted
  notified,          \* the messages sent: by which run, to whom, with whose data
  emStopped,         \* the ids cancelled or resolved while their timer was pending
  \* WebSocketService
  socket,            \* 0 for null, else the socket this.socket refers to
  isConnecting,
  sockets,           \* per socket created by io(), its state and failed attempts
  connectPromises,   \* per socket, the promise of the connect() that created it
  connectReturned,   \* what the latest connect() did before returning
  registrations,     \* the 'user:register' emits: handler's socket, target socket
  \* TTSService and the browser's speechSynthesis
  speakCalls,        \* per speak call, its position, attempts made and closure flags
  retryCount,
  isSpeaking,
  currentUtterance,  \* << >> for null, else the utterance
  synthQueue,        \* the utterances given to synthesis.speak, not yet finished
  synthStarted,      \* whether the head of synthQueue is being spoken
  synthEvents,       \* error events of cancelled utterances, not yet dispatched
  \* AIRouter
  routePc,           \* position of the routeRequest call
  routeProvider,     \* request.provider, "none" when absent
  providerStatus,    \* per provider, "unset", "true" or "false"
  healthCheckDue,    \* whether healthCheckInterval has passed since lastHealthCheck
  sent,              \* the sendMessage calls: which client, for which provider
  routeResult,       \* how the latest routeRequest settled
  routed,            \* routeRequest calls made so far
  \* one FeedbackService.submitFeedback call
  fbPc,          \* "idle", the awaited step, or "done"
  fbArgs,        \* the FeedbackData
  fbExisting,    \* existingPrefs of updateUserPreferences
  fbSettled,     \* "pending" | "resolved" | "rejected"
  fbCount,       \* calls started
  fbWrites,      \* the tables this call sent a write to
  fbUpsert,      \* what the upsert of this call did ("none" before it)
  fbBefore,      \* user_preferences when the call started
  \* one calculateNewPreference application
  calcArgs, calcOut

storeVars == << user_preferences, running_history, routesTable, route_feedback >>

engineFields == << userProfile, userActivity, runningHistory >>

genVars == << genPc, genArgs, genLoadFailed, genRoutesOutcome, genRoutes,
              genSettled, genResult >>

feedbackVars == << fbPc, fbArgs, fbExisting, fbSettled, fbCount, fbWrites,
                   fbUpsert, fbBefore >>

calcVars == << calcArgs, calcOut >>

\* the record of the calls made on one engine object
traceVars == << genTrace, genFirst >>

weatherVars == << wxArgs, wxOut >>

secondVars == << fb2Pc, fb2Args, fb2Existing >>

\* the recommendation and feedback services with their store
recommenderVars == << storeVars, engineFields, genVars, feedbackVars, calcVars, traceVars,
                      weatherVars, secondVars, route_recommendations, applied >>

locationVars == << locationBuffer, batchTimer, locFlights, location_history, locPushed >>

emergencyVars == << activeEmergency, emergency_events, emergency_contacts, alertTimers,
                    alertRuns, emergency_alerts, notified >>

\* the services that share no state with the recommender
webSocketVars == << socket, isConnecting, sockets, connectPromises, connectReturned,
                    registrations >>

ttsVars == << speakCalls, retryCount, isSpeaking, currentUtterance, synthQueue,
              synthStarted, synthEvents >>

routerVars == << routePc, routeProvider, providerStatus, healthCheckDue, sent, routeResult,
                 routed >>

serviceVars == << locationVars, emergencyVars, emStopped, webSocketVars, ttsVars,
                  routerVars >>

vars == << recommenderVars, serviceVars >>

\* what the actions of one service leave alone
notEngine == << route_feedback, feedbackVars, calcVars, weatherVars, secondVars,
               route_recommendations, applied, serviceVars >>
notFeedback == << running_history, routesTable, engineFields, genVars, calcVars, traceVars,
                 weatherVars, secondVars, route_recommendations, serviceVars >>
notCalc == << storeVars, engineFields, genVars, feedbackVars, traceVars, weatherVars,
             secondVars, route_recommendations, applied, serviceVars >>
notWeather == << storeVars, engineFields, genVars, feedbackVars, calcVars, traceVars,
                secondVars, route_recommendations, applied, serviceVars >>
notSecond == << running_history, routesTable, engineFields, genVars, calcVars, traceVars,
               weatherVars, route_recommendations,
               fbPc, fbArgs, fbExisting, fbSettled, fbWrites, fbUpsert, fbBefore,
               serviceVars >>
notRecord == << storeVars, engineFields, genVars, feedbackVars, calcVars, traceVars,
               weatherVars, secondVars, applied, serviceVars >>
notLocation == << recommenderVars, emergencyVars, emStopped, webSocketVars, ttsVars,
                  routerVars >>
notEmergency == << recommenderVars, locationVars, webSocketVars, ttsVars, routerVars >>
notWebSocket == << recommenderVars, locationVars, emergencyVars, emStopped, ttsVars,
                   routerVars >>
notTTS == << recommenderVars, locationVars, emergencyVars, emStopped, webSocketVars,
             routerVars >>
notRouter == << recommenderVars, locationVars, emergencyVars, emStopped, webSocketVars,
                ttsVars >>

(***************************************************************************)
(* RecommendationEngine.getAllRoutes                                       *)
(***************************************************************************)
\* getAllRoutes without the data.length > 0 test
getAllRoutesNoEmptyCheck(outcome, data) ==
  IF outcome = "ok" THEN data ELSE getFallbackRoutes

\* outcome and data are what the routes query did and returned
getAllRoutes(outcome, data) ==
  IF outcome = "ok" /\ Len(data) > 0 THEN data ELSE getFallbackRoutes

(***************************************************************************)
(* RecommendationEngine.generateRecommendations, one action per await      *)
(***************************************************************************)
\* the call: constructor state is kept, the call starts loadUserData
GenStart(weather, timeOfDay, limit) ==
  /\ genPc = "idle"
  /\ genPc' = "user_preferences"
  /\ genArgs' = [weather |-> weather, timeOfDay |-> timeOfDay, limit |-> limit]
  /\ genLoadFailed' = FALSE
  /\ genRoutesOutcome' = "none"
  /\ genRoutes' = <<>>
  /\ genSettled' = "pending"
  /\ genResult' = <<>>
  /\ UNCHANGED << user_preferences, running_history, routesTable, engineFields, notEngine >>

\* loadUserData, first query: a throw goes to the catch block, which logs
\* and returns; an error answer leaves data null
LoadPreferences(outcome) ==
  /\ genPc = "user_preferences"
  /\ userProfile' = CASE outcome = "ok" -> user_preferences
                      [] outcome = "error" -> None
                      [] OTHER -> userProfile
  /\ genPc' = IF outcome = "throw" THEN "routes" ELSE "user_activity_stats"
  /\ genLoadFailed' = (genLoadFailed \/ outcome # "ok")
  /\ UNCHANGED << user_preferences, running_history, routesTable,
                  userActivity, runningHistory,
                  genArgs, genRoutesOutcome, genRoutes, genSettled, genResult, notEngine >>

LoadActivity(outcome) ==
  /\ genPc = "user_activity_stats"
  /\ userActivity' = CASE outcome = "ok" -> Some(ActivityRow)
                       [] outcome = "error" -> None
                       [] OTHER -> userActivity
  /\ genPc' = IF outcome = "throw" THEN "routes" ELSE "running_history"
  /\ UNCHANGED << user_preferences, running_history, routesTable,
                  userProfile, runningHistory, genLoadFailed,
                  genArgs, genRoutesOutcome, genRoutes, genSettled, genResult, notEngine >>

LoadHistory(outcome) ==
  /\ genPc = "running_history"
  /\ runningHistory' = CASE outcome = "ok" -> SubSeq(running_history, 1, Min(30, Len(running_history)))
                         [] outcome = "error" -> << >>
                         [] OTHER -> runningHistory
  /\ genPc' = "routes"
  /\ genLoadFailed' = (genLoadFailed \/ outcome # "ok")
  /\ UNCHANGED << user_preferences, running_history, routesTable,
                  userProfile, userActivity,
                  genArgs, genRoutesOutcome, genRoutes, genSettled, genResult, notEngine >>

\* getAllRoutes answers, then the loop, the sort and the slice run without
\* another await and the call resolves
ScoreAndReturn(outcome) ==
  /\ genPc = "routes"
  /\ LET routes == getAllRoutes(outcome, routesTable)
     IN  /\ genRoutes' = routes
         /\ genResult' = rankRoutes(routes, userProfile, runningHistory,
                                    genArgs.weather, genArgs.timeOfDay, genArgs.limit)
  /\ genRoutesOutcome' = outcome
  /\ genSettled' = "resolved"
  /\ genPc' = "done"
  /\ UNCHANGED << user_preferences, running_history, routesTable,
                  engineFields, genArgs, genLoadFailed, notEngine >>

\* the caller has taken the list; the engine object stays as the call left it
GenReturn ==
  /\ genPc = "done"
  /\ genPc' = "idle"
  /\ genArgs' = [weather |-> Weather(20, "clear", 55, 5), timeOfDay |-> "morning", limit |-> 0]
  /\ genLoadFailed' = FALSE
  /\ genRoutesOutcome' = "none"
  /\ genRoutes' = <<>>
  /\ genSettled' = "pending"
  /\ genResult' = <<>>
  /\ UNCHANGED << user_preferences, running_history, routesTable, engineFields, notEngine >>

(***************************************************************************)
(* FeedbackService                                                         *)
(***************************************************************************)
\* existingPrefs?.column || 5: null, NaN, 0 and a missing row give 5
prefOrDefault(existing, column) ==
  IF ~IsSome(existing) THEN Num(50)
  ELSE LET v == Val(existing)[column]
       IN  IF v.kind \in {"null", "nan"} \/ (v.kind = "num" /\ v.num = 0)
             THEN Num(50) ELSE v

\* calculateNewPreference without Math.max(1, Math.min(10, .))
calculateNewPreferenceNoClamp(currentPreference, newRating, overallRating) ==
  IF newRating = 0 THEN currentPreference
  ELSE IF currentPreference.kind # "num" THEN NaN
  ELSE Num((currentPreference.num * 80 + newRating * overallRating * 40 + 50) \div 100)

\* calculateNewPreference with Math.floor for Math.round
calculateNewPreferenceFloor(currentPreference, newRating, overallRating) ==
  IF newRating = 0 THEN currentPreference
  ELSE IF currentPreference.kind # "num" THEN NaN
  ELSE Num(Max(10, Min(100,
         (currentPreference.num * 80 + newRating * overallRating * 40) \div 100)))

\* calculateNewPreference without the newRating === 0 return
calculateNewPreferenceNoSkip(currentPreference, newRating, overallRating) ==
  IF currentPreference.kind # "num" THEN NaN
  ELSE Num(Max(10, Min(100,
         (currentPreference.num * 80 + newRating * overallRating * 40 + 50) \div 100)))

\* currentPreference is a column value, the ratings are integers
calculateNewPreference(currentPreference, newRating, overallRating) ==
  IF newRating = 0 THEN currentPreference
  ELSE IF currentPreference.kind # "num" THEN NaN
  ELSE
    \* newPreference in thousandths: cur*0.8 + newRating*(overallRating/5)*0.2
    LET newPreference == currentPreference.num * 80 + newRating * overallRating * 40
        \* Math.round(newPreference * 10), in tenths: half rounds up
        rounded == (newPreference + 50) \div 100
    IN  Num(Max(10, Min(100, rounded)))

\* JSON.stringify of the request body turns NaN into null
toJson(v) == IF v.kind = "nan" THEN Null ELSE v

\* updateData of updateUserPreferences, as sent
updateData(existing, feedback) ==
  [difficulty_preference |->
     toJson(calculateNewPreference(prefOrDefault(existing, "difficulty_preference"),
                                   feedback.difficulty, feedback.rating)),
   safety_importance |->
     toJson(calculateNewPreference(prefOrDefault(existing, "safety_importance"),
                                   feedback.safety, feedback.rating)),
   scenery_importance |->
     toJson(calculateNewPreference(prefOrDefault(existing, "scenery_importance"),
                                   feedback.scenery, feedback.rating))]

\* an upsert that sends one statement per column and fails after the first
upsertColumnByColumn(outcome, stored, data) ==
  LET row == IF IsSome(stored) THEN Val(stored) ELSE EmptyPrefRow
  IN  IF outcome # "ok"
        THEN Some([row EXCEPT !.difficulty_preference = data.difficulty_preference])
        ELSE Some([row EXCEPT !.difficulty_preference = data.difficulty_preference,
                              !.safety_importance = data.safety_importance,
                              !.scenery_importance = data.scenery_importance])

\* an upsert whose row is written although the request is answered with a failure
upsertDespiteFailure(outcome, stored, data) ==
  LET row == IF IsSome(stored) THEN Val(stored) ELSE EmptyPrefRow
  IN  Some([row EXCEPT !.difficulty_preference = data.difficulty_preference,
                       !.safety_importance = data.safety_importance,
                       !.scenery_importance = data.scenery_importance])

\* the row of the user after the upsert answered with outcome: the columns
\* of data replace those of the stored row, or a new row is inserted
upsert(outcome, stored, data) ==
  IF outcome # "ok" THEN stored
  ELSE LET row == IF IsSome(stored) THEN Val(stored) ELSE EmptyPrefRow
       IN  Some([row EXCEPT !.difficulty_preference = data.difficulty_preference,
                            !.safety_importance = data.safety_importance,
                            !.scenery_importance = data.scenery_importance])

\* how submitFeedback settles when the route_feedback insert did outcome
\* and updateRecommendationLearning has returned
settleSubmit(insertOutcome) ==
  IF insertOutcome = "ok" THEN "resolved" ELSE "rejected"

FbStart(feedback) ==
  /\ fbPc \in {"idle", "done"}
  /\ fbCount < MaxFeedback
  /\ fbCount' = fbCount + 1
  /\ fbPc' = "insert"
  /\ fbArgs' = feedback
  /\ fbExisting' = None
  /\ fbSettled' = "pending"
  /\ fbWrites' = {}
  /\ fbUpsert' = "none"
  /\ fbBefore' = user_preferences
  /\ UNCHANGED << user_preferences, route_feedback, notFeedback >>

\* the insert into route_feedback: an error answer or a throw rejects the call
FbInsert(outcome) ==
  /\ fbPc = "insert"
  /\ fbWrites' = fbWrites \cup {"route_feedback"}
  /\ route_feedback' = IF outcome = "ok" THEN Append(route_feedback, fbArgs)
                       ELSE route_feedback
  /\ fbPc' = IF outcome = "ok" THEN "fetch" ELSE "done"
  /\ fbSettled' = IF outcome = "ok" THEN fbSettled ELSE settleSubmit(outcome)
  /\ UNCHANGED << user_preferences, fbArgs, fbExisting, fbCount, fbUpsert, fbBefore,
                  notFeedback >>

\* updateUserPreferences, the select: a missing row is the error PGRST116,
\* which is let through with data null; any other failure is caught and
\* logged by updateUserPreferences, and the call resolves
FbFetch(outcome) ==
  /\ fbPc = "fetch"
  /\ fbExisting' = IF outcome = "ok" THEN user_preferences ELSE None
  /\ fbPc' = IF outcome = "ok" THEN "upsert" ELSE "done"
  /\ fbSettled' = IF outcome = "ok" THEN fbSettled ELSE settleSubmit("ok")
  /\ UNCHANGED << user_preferences, route_feedback, fbArgs, fbCount, fbWrites,
                  fbUpsert, fbBefore, notFeedback >>

\* updateUserPreferences, the upsert: a failure is caught and logged by
\* updateUserPreferences, and the call resolves
FbUpsert(outcome) ==
  /\ fbPc = "upsert"
  /\ fbWrites' = fbWrites \cup {"user_preferences"}
  /\ user_preferences' = upsert(outcome, user_preferences, updateData(fbExisting, fbArgs))
  /\ fbUpsert' = outcome
  /\ fbPc' = "done"
  /\ fbSettled' = settleSubmit("ok")
  /\ UNCHANGED << route_feedback, fbArgs, fbExisting, fbCount, fbBefore, notFeedback >>

(***************************************************************************)
(* A second submitFeedback call of the same user, running while the first  *)
(* one is suspended at an await                                            *)
(***************************************************************************)
Fb2Start(feedback) ==
  /\ fb2Pc \in {"idle", "done"}
  /\ fbCount < MaxFeedback
  /\ fbCount' = fbCount + 1
  /\ fb2Pc' = "insert"
  /\ fb2Args' = feedback
  /\ fb2Existing' = None
  /\ UNCHANGED << user_preferences, route_feedback, notSecond >>

Fb2Insert(outcome) ==
  /\ fb2Pc = "insert"
  /\ route_feedback' = IF outcome = "ok" THEN Append(route_feedback, fb2Args)
                       ELSE route_feedback
  /\ fb2Pc' = IF outcome = "ok" THEN "fetch" ELSE "done"
  /\ UNCHANGED << user_preferences, fb2Args, fb2Existing, fbCount, notSecond >>

Fb2Fetch(outcome) ==
  /\ fb2Pc = "fetch"
  /\ fb2Existing' = IF outcome = "ok" THEN user_preferences ELSE None
  /\ fb2Pc' = IF outcome = "ok" THEN "upsert" ELSE "done"
  /\ UNCHANGED << user_preferences, route_feedback, fb2Args, fbCount, notSecond >>

Fb2Upsert(outcome) ==
  /\ fb2Pc = "upsert"
  /\ user_preferences' = upsert(outcome, user_preferences, updateData(fb2Existing, fb2Args))
  /\ fb2Pc' = "done"
  /\ UNCHANGED << route_feedback, fb2Args, fb2Existing, fbCount, notSecond >>

(***************************************************************************)
(* RecommendationEngine.recordUserFeedback                                 *)
(***************************************************************************)
\* the columns of updateData for an action and a rating (0: not given)
recordColumns(action, rating) ==
  CASE action = "clicked" -> {"user_clicked"}
    [] action = "completed" -> {"user_completed"}
    [] action = "rated" /\ rating # 0 -> {"user_rating"}
    [] OTHER -> {}

\* one update of route_recommendations; a failure is caught and logged
RecordUserFeedback(action, rating, outcome) ==
  /\ route_recommendations' = IF outcome = "ok"
                                THEN route_recommendations \cup recordColumns(action, rating)
                                ELSE route_recommendations
  /\ UNCHANGED notRecord

(***************************************************************************)
(* LocationService: batchSaveLocation, the batch timer, forceFlush and the *)
(* answers of the inserts                                                  *)
(***************************************************************************)
batchSize == 10

\* records passed to batchSaveLocation in one run, and inserts in flight
MaxLocations == 10
MaxFlights == 2

\* flushLocationBuffer up to its await: nothing for an empty buffer, else an
\* insert whose body is the buffer as it is now
startFlush(buffer, flights) ==
  IF Len(buffer) = 0 THEN flights ELSE Append(flights, buffer)

\* the table after a successful insert of body
insertLocations(table, body) ==
  [id \in DOMAIN table |->
     IF \E i \in 1..Len(body) : body[i] = id THEN table[id] + 1 ELSE table[id]]

\* batchSaveLocation: the record is pushed, then the buffer is flushed when
\* it has reached batchSize and the timer is set anew otherwise
BatchSaveLocation ==
  /\ locPushed < MaxLocations
  /\ LET buffer == Append(locationBuffer, locPushed + 1)
     IN  /\ locationBuffer' = buffer
         /\ IF Len(buffer) >= batchSize
              THEN /\ Len(locFlights) < MaxFlights
                   /\ locFlights' = startFlush(buffer, locFlights)
                   /\ UNCHANGED batchTimer
              ELSE /\ batchTimer' = "armed"
                   /\ UNCHANGED locFlights
  /\ locPushed' = locPushed + 1
  /\ UNCHANGED << location_history, notLocation >>

\* the callback of resetBatchTimer
BatchTimerFires ==
  /\ batchTimer = "armed"
  /\ Len(locFlights) < MaxFlights
  /\ batchTimer' = "fired"
  /\ locFlights' = startFlush(locationBuffer, locFlights)
  /\ UNCHANGED << locationBuffer, location_history, locPushed, notLocation >>

\* forceFlush on a buffer that holds records
ForceFlush ==
  /\ Len(locationBuffer) > 0
  /\ Len(locFlights) < MaxFlights
  /\ locFlights' = startFlush(locationBuffer, locFlights)
  /\ UNCHANGED << locationBuffer, batchTimer, location_history, locPushed, notLocation >>

\* the insert of flight k is answered: on success the buffer is replaced by
\* an empty one and the timer cleared, on failure the flush throws
FlushAnswered(k, outcome) ==
  /\ k \in 1..Len(locFlights)
  /\ locFlights' = SubSeq(locFlights, 1, k - 1) \o SubSeq(locFlights, k + 1, Len(locFlights))
  /\ IF outcome = "ok"
       THEN /\ location_history' = insertLocations(location_history, locFlights[k])
            /\ locationBuffer' = << >>
            /\ batchTimer' = "none"
       ELSE UNCHANGED << location_history, locationBuffer, batchTimer >>
  /\ UNCHANGED << locPushed, notLocation >>

(***************************************************************************)
(* EmergencyService.  Ids are 1, 2, ... in the order of the inserts; each  *)
(* action is a call up to and including the answer of its store request.   *)
(***************************************************************************)
MaxEmergencies == 2
MaxContacts == 1

EmergencyIds == 1..MaxEmergencies

AlertModes == {"none", "immediate", "delayed"}

NoRun == [pc |-> "none", alerts |-> << >>]

hasActiveEmergency == activeEmergency # 0

\* the id the next insert into emergency_events returns, 0 when the bound
\* is reached
nextEmergencyId ==
  IF \E id \in EmergencyIds : emergency_events[id] = "none"
    THEN CHOOSE id \in EmergencyIds :
           /\ emergency_events[id] = "none"
           /\ \A other \in 1..(id - 1) : emergency_events[other] # "none"
    ELSE 0

\* update(...).eq('id', id): the row with that id, if there is one
updateStatus(events, id, status) ==
  [e \in DOMAIN events |-> IF e = id /\ events[e] # "none" THEN status ELSE events[e]]

\* triggerEmergency: the insert answers; on success the event becomes the
\* active one and, with autoAlert, the alerts are sent now (alertDelay 0 or
\* absent) or a timer is set (alertDelay > 0)
TriggerEmergency(mode, outcome) ==
  /\ nextEmergencyId # 0
  /\ LET id == nextEmergencyId
     IN  IF outcome = "ok"
           THEN /\ emergency_events' = [emergency_events EXCEPT ![id] = "active"]
                /\ activeEmergency' = id
                /\ alertTimers' = IF mode = "delayed" THEN alertTimers \cup {id}
                                  ELSE alertTimers
                /\ alertRuns' = IF mode = "immediate"
                                  THEN [alertRuns EXCEPT ![id].pc = "contacts"]
                                  ELSE alertRuns
           ELSE UNCHANGED << emergency_events, activeEmergency, alertTimers, alertRuns >>
  /\ UNCHANGED << emergency_contacts, emergency_alerts, notified, notEmergency >>

\* cancelEmergency(id) and resolveEmergency(id): the update answers; on
\* success activeEmergency is set to null
closeEmergency(id, status, outcome) ==
  /\ IF outcome = "ok"
       THEN /\ emergency_events' = updateStatus(emergency_events, id, status)
            /\ activeEmergency' = 0
       ELSE UNCHANGED << emergency_events, activeEmergency >>
  /\ UNCHANGED << emergency_contacts, alertTimers, alertRuns, emergency_alerts, notified,
                  notEmergency >>

CancelEmergency(id, outcome) == closeEmergency(id, "cancelled", outcome)

ResolveEmergency(id, outcome) == closeEmergency(id, "resolved", outcome)

\* the setTimeout callback of triggerEmergency: sendEmergencyAlerts(id)
\* starts and awaits getEmergencyContacts
AlertTimerFires(id) ==
  /\ id \in alertTimers
  /\ alertTimers' = alertTimers \ {id}
  /\ alertRuns' = [alertRuns EXCEPT ![id].pc = "contacts"]
  /\ UNCHANGED << activeEmergency, emergency_events, emergency_contacts, emergency_alerts,
                  notified, notEmergency >>

\* sendAlert for one contact: false when activeEmergency is null, else the
\* message is built from activeEmergency and sent
sendAlert(id, contact) ==
  IF activeEmergency = 0
    THEN [delivered |-> FALSE, messages |-> {}]
    ELSE [delivered |-> TRUE,
          messages |-> {[run |-> id, contact |-> contact, data |-> activeEmergency]}]

\* getEmergencyContacts answers (a failure is caught and gives no contact);
\* the loop over the contacts runs to the insert into emergency_alerts
AlertContactsAnswered(id, outcome) ==
  /\ alertRuns[id].pc = "contacts"
  /\ LET contacts == IF outcome = "ok" THEN emergency_contacts ELSE 0
     IN  /\ alertRuns' = [alertRuns EXCEPT ![id] =
                           [pc |-> "insert",
                            alerts |-> [c \in 1..contacts |-> sendAlert(id, c).delivered]]]
         /\ notified' = notified \cup UNION { sendAlert(id, c).messages : c \in 1..contacts }
  /\ UNCHANGED << activeEmergency, emergency_events, emergency_contacts, alertTimers,
                  emergency_alerts, notEmergency >>

\* notifyNearbyResources: nothing without an active emergency, else the
\* resources are told of the active emergency (contact 0 stands for them)
notifyNearbyResources(id) ==
  IF activeEmergency = 0
    THEN {}
    ELSE {[run |-> id, contact |-> 0, data |-> activeEmergency]}

\* the insert into emergency_alerts answers; on success the nearby
\* resources are notified, on failure the error is thrown
AlertInsertAnswered(id, outcome) ==
  /\ alertRuns[id].pc = "insert"
  /\ alertRuns' = [alertRuns EXCEPT ![id].pc = "done"]
  /\ IF outcome = "ok"
       THEN /\ emergency_alerts' = emergency_alerts \cup
                  { [emergency_event_id |-> id, contact_id |-> c,
                     delivered |-> alertRuns[id].alerts[c]] :
                    c \in 1..Len(alertRuns[id].alerts) }
            /\ notified' = notified \cup notifyNearbyResources(id)
       ELSE UNCHANGED << emergency_alerts, notified >>
  /\ UNCHANGED << activeEmergency, emergency_events, emergency_contacts, alertTimers,
                  notEmergency >>

(***************************************************************************)
(* WebSocketService.  A socket made by io() with reconnection: true is     *)
(* "connecting" during an attempt, "open" once connected, "waiting"        *)
(* between a failed attempt or a lost connection and the next attempt, and *)
(* "closed" after disconnect(), a disconnect by the server or the last     *)
(* attempt allowed.                                                        *)
(***************************************************************************)
MaxSockets == 2
maxReconnectAttempts == 5

SocketIds == 1..MaxSockets

NoSocket == [state |-> "none", attempts |-> 0, userId |-> FALSE]

Live(s) == sockets[s].state \in {"connecting", "open", "waiting"}

\* socket.connected
connected(s) == s # 0 /\ sockets[s].state = "open"

isConnected == connected(socket)

getConnectionStatus ==
  IF socket = 0 THEN "disconnected"
  ELSE IF isConnecting THEN "connecting"
  ELSE IF connected(socket) THEN "connected" ELSE "disconnected"

\* the socket the next io() makes, 0 when the bound is reached
nextSocket ==
  IF \E s \in SocketIds : sockets[s].state = "none"
    THEN CHOOSE s \in SocketIds :
           /\ sockets[s].state = "none"
           /\ \A other \in 1..(s - 1) : sockets[other].state # "none"
    ELSE 0

settle(promises, s, result) ==
  [promises EXCEPT ![s] = IF @ = "pending" THEN result ELSE @]

\* connect(userId): resolves at once when this.socket is connected, rejects
\* when isConnecting, else sets isConnecting and makes a socket (or rejects
\* when io() throws)
Connect(userId, outcome) ==
  /\ IF connected(socket)
       THEN /\ connectReturned' = "resolved"
            /\ UNCHANGED << socket, isConnecting, sockets, connectPromises >>
       ELSE IF isConnecting
         THEN /\ connectReturned' = "Connection already in progress"
              /\ UNCHANGED << socket, isConnecting, sockets, connectPromises >>
         ELSE IF outcome = "throw"
           THEN /\ connectReturned' = "thrown"
                /\ isConnecting' = FALSE
                /\ UNCHANGED << socket, sockets, connectPromises >>
           ELSE /\ nextSocket # 0
                /\ connectReturned' = "created"
                /\ isConnecting' = TRUE
                /\ socket' = nextSocket
                /\ sockets' = [sockets EXCEPT ![nextSocket] =
                                 [state |-> "connecting", attempts |-> 0, userId |-> userId]]
                /\ connectPromises' = [connectPromises EXCEPT ![nextSocket] = "pending"]
  /\ UNCHANGED << registrations, notWebSocket >>

\* the 'connect' handler of socket s: the register emit goes to this.socket
\* (target 0: this.socket is null and the emit throws before resolve())
OnConnect(s) ==
  /\ sockets[s].state = "connecting"
  /\ sockets' = [sockets EXCEPT ![s].state = "open", ![s].attempts = 0]
  /\ isConnecting' = FALSE
  /\ registrations' = IF sockets[s].userId
                         THEN registrations \cup {<< s, socket >>}
                         ELSE registrations
  /\ connectPromises' = IF sockets[s].userId /\ socket = 0
                           THEN connectPromises
                           ELSE settle(connectPromises, s, "resolved")
  /\ UNCHANGED << socket, connectReturned, notWebSocket >>

\* the 'connect_error' handler of socket s; the socket tries again by
\* itself until reconnectionAttempts attempts have failed
OnConnectError(s) ==
  /\ sockets[s].state = "connecting"
  /\ sockets' = [sockets EXCEPT ![s].state =
                    IF sockets[s].attempts < maxReconnectAttempts THEN "waiting" ELSE "closed"]
  /\ isConnecting' = FALSE
  /\ connectPromises' = settle(connectPromises, s, "rejected")
  /\ UNCHANGED << socket, connectReturned, registrations, notWebSocket >>

\* after reconnectionDelay socket s makes its next attempt; no handler of
\* the service runs
Reconnects(s) ==
  /\ sockets[s].state = "waiting"
  /\ sockets' = [sockets EXCEPT ![s].state = "connecting", ![s].attempts = @ + 1]
  /\ UNCHANGED << socket, isConnecting, connectPromises, connectReturned, registrations,
                  notWebSocket >>

\* the 'disconnect' handler of socket s: the connection was lost (the
\* socket reconnects by itself) or the server closed it (it does not)
OnDisconnect(s, reason) ==
  /\ sockets[s].state = "open"
  /\ sockets' = [sockets EXCEPT ![s].state =
                    IF reason = "io server disconnect" THEN "closed" ELSE "waiting"]
  /\ isConnecting' = FALSE
  /\ UNCHANGED << socket, connectPromises, connectReturned, registrations, notWebSocket >>

\* disconnect(): closes this.socket, if any, and forgets it
Disconnect ==
  /\ sockets' = IF socket = 0 THEN sockets ELSE [sockets EXCEPT ![socket].state = "closed"]
  /\ socket' = 0
  /\ isConnecting' = FALSE
  /\ UNCHANGED << connectPromises, connectReturned, registrations, notWebSocket >>

(***************************************************************************)
(* TTSService.speak over the browser's speechSynthesis.  An utterance is   *)
(* the pair of the speak call and the number of the attempt that made it;  *)
(* the closure variables hasStarted and hasEnded of an attempt are fields  *)
(* of the call (hasEnded holds of every attempt but the one in progress).  *)
(* speechSynthesis keeps the utterances in a queue, speaks the head, and   *)
(* on cancel() empties the queue and reports 'interrupted' for the         *)
(* utterance being spoken and 'canceled' for the others.                   *)
(***************************************************************************)
maxRetries == 3
MaxSpeak == 2
MaxAttempts == 5

SpeakIds == 1..MaxSpeak

NoCall == [pc |-> "none", attempts |-> 0, hasStarted |-> FALSE, checked |-> FALSE]

Utterance(c, n) == [call |-> c, n |-> n]

\* the attempt that made u has not ended
inProgress(u) ==
  speakCalls[u.call].pc = "attempt" /\ speakCalls[u.call].attempts = u.n

\* synthesis.speaking
speaking == synthQueue # << >> /\ synthStarted

\* the events synthesis.cancel() queues, by is the caller
cancel(by) ==
  { [utterance |-> synthQueue[i],
     error |-> IF i = 1 /\ synthStarted THEN "interrupted" ELSE "canceled",
     by |-> by] : i \in 1..Len(synthQueue) }

\* the events whose handler is not a no-op: those of an utterance whose
\* attempt has not ended (an event of an ended attempt finds hasEnded true
\* whenever it is dispatched, and is dropped here)
awaited(events, calls) ==
  { e \in events : /\ calls[e.utterance.call].pc = "attempt"
                   /\ calls[e.utterance.call].attempts = e.utterance.n }

nextCall ==
  IF \E c \in SpeakIds : speakCalls[c].pc = "none"
    THEN CHOOSE c \in SpeakIds :
           /\ speakCalls[c].pc = "none"
           /\ \A other \in 1..(c - 1) : speakCalls[other].pc # "none"
    ELSE 0

\* stopSpeaking()
StopSpeaking ==
  /\ synthEvents' = awaited(synthEvents \cup cancel("stopSpeaking"), speakCalls)
  /\ synthQueue' = << >>
  /\ synthStarted' = FALSE
  /\ currentUtterance' = << >>
  /\ isSpeaking' = FALSE
  /\ UNCHANGED << speakCalls, retryCount, notTTS >>

\* speak(options) up to the setTimeout of synthesizeWithBrowser, in a
\* browser that supports speech synthesis
Speak ==
  /\ nextCall # 0
  /\ retryCount' = 0
  /\ synthEvents' = awaited(synthEvents \cup cancel("stopSpeaking"), speakCalls)
  /\ synthQueue' = << >>
  /\ synthStarted' = FALSE
  /\ currentUtterance' = << >>
  /\ isSpeaking' = FALSE
  /\ speakCalls' = [speakCalls EXCEPT ![nextCall].pc = "timer"]
  /\ UNCHANGED notTTS

\* the setTimeout callback of synthesizeWithBrowser or of a retry:
\* performBrowserTTS makes an utterance and gives it to synthesis.speak
performBrowserTTS(c) ==
  /\ speakCalls[c].pc = "timer"
  /\ speakCalls[c].attempts < MaxAttempts
  /\ LET n == speakCalls[c].attempts + 1
     IN  /\ speakCalls' = [speakCalls EXCEPT ![c] =
                             [pc |-> "attempt", attempts |-> n,
                              hasStarted |-> FALSE, checked |-> FALSE]]
         /\ currentUtterance' = Utterance(c, n)
         /\ synthQueue' = Append(synthQueue, Utterance(c, n))
  /\ UNCHANGED << retryCount, isSpeaking, synthStarted, synthEvents, notTTS >>

\* the retry of onerror and of the start check: another attempt while
\* retryCount < maxRetries, else the promise is rejected
retryOrReject(c, retriable) ==
  IF retriable /\ retryCount < maxRetries
    THEN /\ retryCount' = retryCount + 1
         /\ speakCalls' = [speakCalls EXCEPT ![c].pc = "timer"]
    ELSE /\ retryCount' = 0
         /\ speakCalls' = [speakCalls EXCEPT ![c].pc = "rejected"]

\* utterance.onstart: the browser starts to speak the head of its queue
OnStart ==
  /\ synthQueue # << >>
  /\ ~synthStarted
  /\ synthStarted' = TRUE
  /\ isSpeaking' = TRUE
  /\ speakCalls' = IF inProgress(Head(synthQueue))
                      THEN [speakCalls EXCEPT ![Head(synthQueue).call].hasStarted = TRUE]
                      ELSE speakCalls
  /\ UNCHANGED << retryCount, currentUtterance, synthQueue, synthEvents, notTTS >>

\* utterance.onend: the browser has spoken the head of its queue
OnEnd ==
  /\ speaking
  /\ synthQueue' = Tail(synthQueue)
  /\ synthStarted' = FALSE
  /\ IF inProgress(Head(synthQueue))
       THEN /\ currentUtterance' = << >>
            /\ isSpeaking' = FALSE
            /\ speakCalls' = [speakCalls EXCEPT ![Head(synthQueue).call].pc = "resolved"]
       ELSE UNCHANGED << currentUtterance, isSpeaking, speakCalls >>
  /\ UNCHANGED << retryCount, synthEvents, notTTS >>

\* utterance.onerror with event.error = error
onerror(u, error) ==
  IF inProgress(u)
    THEN /\ currentUtterance' = << >>
         /\ isSpeaking' = FALSE
         /\ retryOrReject(u.call, error = "interrupted")
    ELSE UNCHANGED << currentUtterance, isSpeaking, retryCount, speakCalls >>

\* the browser fails to speak the head of its queue
OnSynthesisFailed ==
  /\ speaking
  /\ synthQueue' = Tail(synthQueue)
  /\ synthStarted' = FALSE
  /\ onerror(Head(synthQueue), "synthesis-failed")
  /\ UNCHANGED << synthEvents, notTTS >>

\* the error event of a cancelled utterance is dispatched
OnCancelled(e) ==
  /\ e \in synthEvents
  /\ onerror(e.utterance, e.error)
  /\ synthEvents' = awaited(synthEvents \ {e}, speakCalls')
  /\ UNCHANGED << synthQueue, synthStarted, notTTS >>

\* the 2-second check of performBrowserTTS
StartCheck(c) ==
  /\ speakCalls[c].pc = "attempt"
  /\ ~speakCalls[c].checked
  /\ IF ~speakCalls[c].hasStarted /\ ~speaking
       THEN /\ currentUtterance' = << >>
            /\ isSpeaking' = FALSE
            /\ retryOrReject(c, TRUE)
       ELSE /\ speakCalls' = [speakCalls EXCEPT ![c].checked = TRUE]
            /\ UNCHANGED << currentUtterance, isSpeaking, retryCount >>
  /\ synthEvents' = awaited(synthEvents, speakCalls')
  /\ UNCHANGED << synthQueue, synthStarted, notTTS >>

\* the 60-second timeout of performBrowserTTS
Timeout(c) ==
  /\ speakCalls[c].pc = "attempt"
  /\ speakCalls[c].checked
  /\ speakCalls' = [speakCalls EXCEPT ![c].pc = "rejected"]
  /\ synthEvents' = awaited(synthEvents \cup cancel("timeout"), speakCalls')
  /\ synthQueue' = << >>
  /\ synthStarted' = FALSE
  /\ currentUtterance' = << >>
  /\ isSpeaking' = FALSE
  /\ UNCHANGED << retryCount, notTTS >>

(***************************************************************************)
(* AIRouter.routeRequest, one call at a time; each action is the call up   *)
(* to its next await.                                                      *)
(***************************************************************************)
MaxRequests == 3

Providers == {"kimi", "deepseek"}

\* stands for the message of the Error routeRequest throws after the
\* fallback failed
Unavailable == "AI service unavailable, retry later"

\* providerStatus.get(provider) ?? true
isProviderAvailable(status, provider) == status[provider] # "false"

selectProviderByType(status) ==
  IF isProviderAvailable(status, "kimi") THEN "kimi" ELSE "kimi"

\* sendToProvider(request, provider): the message goes to kimiClient
sendToProvider(provider) == Append(sent, [client |-> "kimi", provider |-> provider])

\* routeRequest after checkProviderHealth: the first sendToProvider
firstSend(provider, status) ==
  sent' = sendToProvider(IF provider # "none" THEN provider
                         ELSE selectProviderByType(status))

\* routeRequest(request) up to the await in checkProviderHealth, or, when
\* the last check is recent, up to the await of the first sendToProvider
RouteRequest(provider, due) ==
  /\ routePc = "idle"
  /\ routed < MaxRequests
  /\ routed' = routed + 1
  /\ routeProvider' = provider
  /\ routeResult' = "pending"
  /\ healthCheckDue' = FALSE
  /\ IF due \/ healthCheckDue
       THEN /\ routePc' = "health"
            /\ UNCHANGED sent
       ELSE /\ routePc' = "first"
            /\ firstSend(provider, providerStatus)
  /\ UNCHANGED << providerStatus, notRouter >>

\* kimiClient.checkConnection answers true, false or throws
HealthAnswered(outcome) ==
  /\ routePc = "health"
  /\ providerStatus' = [providerStatus EXCEPT
                          !["kimi"] = IF outcome = "true" THEN "true" ELSE "false"]
  /\ routePc' = "first"
  /\ firstSend(routeProvider, providerStatus')
  /\ UNCHANGED << routeProvider, healthCheckDue, routeResult, routed, notRouter >>

\* the first sendToProvider answers: its response or error is the result
\* when the request names a provider, else a failure starts the fallback
FirstAnswered(outcome) ==
  /\ routePc = "first"
  /\ IF outcome = "ok"
       THEN /\ routePc' = "idle"
            /\ routeResult' = "response"
            /\ UNCHANGED sent
       ELSE IF routeProvider # "none"
         THEN /\ routePc' = "idle"
              /\ routeResult' = "client error"
              /\ UNCHANGED sent
         ELSE /\ routePc' = "fallback"
              /\ sent' = sendToProvider(IF selectProviderByType(providerStatus) = "kimi"
                                          THEN "deepseek" ELSE "kimi")
              /\ UNCHANGED routeResult
  /\ UNCHANGED << routeProvider, providerStatus, healthCheckDue, routed, notRouter >>

\* the fallback sendToProvider answers
FallbackAnswered(outcome) ==
  /\ routePc = "fallback"
  /\ routePc' = "idle"
  /\ routeResult' = IF outcome = "ok" THEN "response" ELSE Unavailable
  /\ UNCHANGED << routeProvider, providerStatus, healthCheckDue, sent, routed, notRouter >>

(***************************************************************************)
(* calculateNewPreference applied to one triple of inputs                  *)
(***************************************************************************)
Calculate ==
  /\ calcOut = None
  /\ calcOut' = Some(calculateNewPreference(Num(calcArgs.currentPreference),
                                            calcArgs.newRating, calcArgs.overallRating))
  /\ UNCHANGED << calcArgs, notCalc >>

\* one application of getWeatherSuitabilityScore to the reading wxArgs
WeatherScore ==
  /\ wxOut = None
  /\ wxOut' = Some(getWeatherSuitabilityScore(wxArgs))
  /\ UNCHANGED << wxArgs, notWeather >>

(***************************************************************************)
(* Specifications                                                          *)
(***************************************************************************)
StoreInit ==
  /\ user_preferences \in {None} \cup { Some(p) : p \in ProfilePool }
  /\ running_history \in HistoryPool
  /\ routesTable \in DbCatalogs
  /\ route_feedback = << >>

EngineIdle ==
  /\ userProfile = None
  /\ userActivity = None
  /\ runningHistory = << >>
  /\ genPc = "idle"
  /\ genArgs = [weather |-> Weather(20, "clear", 55, 5), timeOfDay |-> "morning", limit |-> 0]
  /\ genLoadFailed = FALSE
  /\ genRoutesOutcome = "none"
  /\ genRoutes = << >>
  /\ genSettled = "pending"
  /\ genResult = << >>

FeedbackIdle ==
  /\ fbPc = "idle"
  /\ fbArgs = Feedback("route-1", 5, 8, 0, 3)
  /\ fbExisting = None
  /\ fbSettled = "pending"
  /\ fbCount = 0
  /\ fbWrites = {}
  /\ fbUpsert = "none"
  /\ fbBefore = None

CalcIdle ==
  /\ calcArgs = [currentPreference |-> 50, newRating |-> 0, overallRating |-> 0]
  /\ calcOut = None

TraceIdle ==
  /\ genTrace = << >>
  /\ genFirst = None

WeatherIdle ==
  /\ wxArgs = Weather(20, "clear", 55, 5)
  /\ wxOut = None

\* the three dimensions updateUserPreferences writes, of a stored row
Dimensions(row) ==
  [difficulty_preference |-> row.difficulty_preference,
   safety_importance |-> row.safety_importance,
   scenery_importance |-> row.scenery_importance]

LocationIdle ==
  /\ locationBuffer = << >>
  /\ batchTimer = "none"
  /\ locFlights = << >>
  /\ location_history = [id \in 1..MaxLocations |-> 0]
  /\ locPushed = 0

\* no emergency triggered yet
NoEmergency ==
  /\ activeEmergency = 0
  /\ emergency_events = [id \in EmergencyIds |-> "none"]
  /\ alertTimers = {}
  /\ alertRuns = [id \in EmergencyIds |-> NoRun]
  /\ emergency_alerts = {}
  /\ notified = {}
  /\ emStopped = {}

EmergencyIdle == NoEmergency /\ emergency_contacts = 0

\* a new WebSocketService
WebSocketIdle ==
  /\ socket = 0
  /\ isConnecting = FALSE
  /\ sockets = [s \in SocketIds |-> NoSocket]
  /\ connectPromises = [s \in SocketIds |-> "none"]
  /\ connectReturned = "none"
  /\ registrations = {}

\* a new TTSService, nothing given to the browser yet
TTSIdle ==
  /\ speakCalls = [c \in SpeakIds |-> NoCall]
  /\ retryCount = 0
  /\ isSpeaking = FALSE
  /\ currentUtterance = << >>
  /\ synthQueue = << >>
  /\ synthStarted = FALSE
  /\ synthEvents = {}

\* a new AIRouter: no status known, lastHealthCheck is new Date(0)
RouterIdle ==
  /\ routePc = "idle"
  /\ routeProvider = "none"
  /\ providerStatus = [p \in Providers |-> "unset"]
  /\ healthCheckDue = TRUE
  /\ sent = << >>
  /\ routeResult = "none"
  /\ routed = 0

ServicesIdle == LocationIdle /\ EmergencyIdle /\ WebSocketIdle /\ TTSIdle /\ RouterIdle

SecondIdle ==
  /\ fb2Pc = "idle"
  /\ fb2Args = Feedback("route-1", 5, 8, 0, 3)
  /\ fb2Existing = None
  /\ route_recommendations = {}
  /\ applied = IF IsSome(user_preferences) THEN {Dimensions(Val(user_preferences))} ELSE {}

\* the recommendation engine of one user over a store that fails at will
EngineInit == StoreInit /\ EngineIdle /\ FeedbackIdle /\ CalcIdle /\ TraceIdle /\ WeatherIdle /\ SecondIdle /\ ServicesIdle

EngineNext ==
  \/ /\ \E w \in WeatherPool, t \in TimePool, l \in 0..MaxLimit : GenStart(w, t, l)
     /\ UNCHANGED traceVars
  \/ /\ \E o \in StoreOutcomes : LoadPreferences(o)
     /\ UNCHANGED traceVars
  \/ /\ \E o \in StoreOutcomes : LoadActivity(o)
     /\ UNCHANGED traceVars
  \/ /\ \E o \in StoreOutcomes : LoadHistory(o)
     /\ UNCHANGED traceVars
  \/ /\ \E o \in StoreOutcomes : ScoreAndReturn(o)
     /\ UNCHANGED traceVars
  \/ /\ GenReturn
     /\ UNCHANGED traceVars

SpecEngine == EngineInit /\ [][EngineNext]_vars

\* feedback submissions of one user, one after the other
FeedbackInit ==
  /\ user_preferences \in {None} \cup { Some(p) : p \in ProfilePool }
  /\ running_history = << >>
  /\ routesTable = << >>
  /\ route_feedback = << >>
  /\ EngineIdle /\ FeedbackIdle /\ CalcIdle /\ TraceIdle /\ WeatherIdle /\ SecondIdle /\ ServicesIdle

FeedbackNext ==
  \/ /\ \E f \in FeedbackPool : FbStart(f)
     /\ UNCHANGED applied
  \/ /\ \E o \in StoreOutcomes : FbInsert(o)
     /\ UNCHANGED applied
  \/ /\ \E o \in StoreOutcomes : FbFetch(o)
     /\ UNCHANGED applied
  \/ /\ \E o \in StoreOutcomes : FbUpsert(o)
     /\ UNCHANGED applied

SpecFeedback == FeedbackInit /\ [][FeedbackNext]_vars

\* calculateNewPreference over a grid of inputs
CalcInit ==
  /\ user_preferences = None
  /\ running_history = << >>
  /\ routesTable = << >>
  /\ route_feedback = << >>
  /\ EngineIdle /\ FeedbackIdle /\ TraceIdle /\ WeatherIdle /\ SecondIdle /\ ServicesIdle
  /\ calcArgs \in [currentPreference : 1..MaxPrior,
                   newRating : (0 - MaxRating)..MaxRating,
                   overallRating : 0..MaxOverall]
  /\ calcOut = None

CalcNext == Calculate

SpecCalc == CalcInit /\ [][CalcNext]_vars

\* getWeatherSuitabilityScore over a grid of readings
WeatherInit ==
  /\ user_preferences = None
  /\ running_history = << >>
  /\ routesTable = << >>
  /\ route_feedback = << >>
  /\ EngineIdle /\ FeedbackIdle /\ CalcIdle /\ TraceIdle /\ SecondIdle /\ ServicesIdle
  /\ wxArgs \in [temperature : TemperaturePool, condition : ConditionPool,
                  humidity : HumidityPool, windSpeed : WindPool]
  /\ wxOut = None

WeatherNext == WeatherScore

SpecWeather == WeatherInit /\ [][WeatherNext]_vars

\* two feedback submissions of one user in flight together, while the engine
\* generates recommendations and records the user's actions
ConcurrentFeedback == { Feedback("route-1", 5, 8, 0, 3), Feedback("db-2", 4, 0, 7, 0) }

ConcurrentOutcomes == {"ok", "error"}

ConcurrentInit ==
  /\ user_preferences \in {None} \cup { Some(p) : p \in ProfilePool }
  /\ running_history = << >>
  /\ routesTable = SubSeq(DbRoutePool, 1, 1)
  /\ route_feedback = << >>
  /\ EngineIdle /\ FeedbackIdle /\ CalcIdle /\ TraceIdle /\ WeatherIdle /\ SecondIdle /\ ServicesIdle

ConcurrentNext ==
  \/ /\ \E f \in ConcurrentFeedback : FbStart(f)
     /\ UNCHANGED applied
  \/ /\ FbInsert("ok")
     /\ UNCHANGED applied
  \/ /\ \E o \in ConcurrentOutcomes : FbFetch(o)
     /\ UNCHANGED applied
  \/ \E o \in ConcurrentOutcomes :
       /\ FbUpsert(o)
       /\ applied' = IF o = "ok" THEN applied \cup {updateData(fbExisting, fbArgs)}
                     ELSE applied
  \/ /\ \E f \in ConcurrentFeedback : Fb2Start(f)
     /\ UNCHANGED applied
  \/ /\ Fb2Insert("ok")
     /\ UNCHANGED applied
  \/ /\ \E o \in ConcurrentOutcomes : Fb2Fetch(o)
     /\ UNCHANGED applied
  \/ \E o \in ConcurrentOutcomes :
       /\ Fb2Upsert(o)
       /\ applied' = IF o = "ok" THEN applied \cup {updateData(fb2Existing, fb2Args)}
                     ELSE applied
  \/ /\ GenStart(Weather(20, "clear", 55, 5), "morning", 1)
     /\ UNCHANGED traceVars
  \/ /\ LoadPreferences("ok")
     /\ UNCHANGED traceVars
  \/ /\ LoadActivity("ok")
     /\ UNCHANGED traceVars
  \/ /\ LoadHistory("ok")
     /\ UNCHANGED traceVars
  \/ /\ ScoreAndReturn("ok")
     /\ UNCHANGED traceVars
  \/ /\ GenReturn
     /\ UNCHANGED traceVars
  \/ \E o \in ConcurrentOutcomes : RecordUserFeedback("clicked", 0, o)

SpecConcurrent == ConcurrentInit /\ [][ConcurrentNext]_vars

\* no user, no route and no call: the recommender side of the other services
RecommenderIdle ==
  /\ user_preferences = None
  /\ running_history = << >>
  /\ routesTable = << >>
  /\ route_feedback = << >>
  /\ EngineIdle /\ FeedbackIdle /\ CalcIdle /\ TraceIdle /\ WeatherIdle /\ SecondIdle

\* LocationService: calls, timer callbacks and insert answers in any order
LocationInit == RecommenderIdle /\ ServicesIdle

LocationNext ==
  \/ BatchSaveLocation
  \/ BatchTimerFires
  \/ ForceFlush
  \/ \E k \in 1..MaxFlights, o \in StoreOutcomes : FlushAnswered(k, o)

SpecLocation == LocationInit /\ [][LocationNext]_vars

\* EmergencyService: calls, timer callbacks and store answers in any order;
\* emStopped collects the ids cancelled or resolved with success while their
\* delayed alert was still pending
EmergencyInit ==
  /\ RecommenderIdle /\ LocationIdle /\ WebSocketIdle /\ TTSIdle /\ RouterIdle
  /\ NoEmergency
  /\ emergency_contacts \in 0..MaxContacts

stoppedBy(id, outcome) ==
  IF outcome = "ok" /\ id \in alertTimers /\ emergency_events[id] = "active"
    THEN emStopped \cup {id}
    ELSE emStopped

EmergencyNext ==
  \/ /\ \E m \in AlertModes, o \in StoreOutcomes : TriggerEmergency(m, o)
     /\ UNCHANGED emStopped
  \/ \E id \in EmergencyIds, o \in StoreOutcomes :
       /\ CancelEmergency(id, o)
       /\ emStopped' = stoppedBy(id, o)
  \/ \E id \in EmergencyIds, o \in StoreOutcomes :
       /\ ResolveEmergency(id, o)
       /\ emStopped' = stoppedBy(id, o)
  \/ /\ \E id \in EmergencyIds : AlertTimerFires(id)
     /\ UNCHANGED emStopped
  \/ /\ \E id \in EmergencyIds, o \in StoreOutcomes : AlertContactsAnswered(id, o)
     /\ UNCHANGED emStopped
  \/ /\ \E id \in EmergencyIds, o \in StoreOutcomes : AlertInsertAnswered(id, o)
     /\ UNCHANGED emStopped

SpecEmergency == EmergencyInit /\ [][EmergencyNext]_vars

\* WebSocketService: calls and socket events in any order
WebSocketInit == RecommenderIdle /\ ServicesIdle

DisconnectReasons == {"transport close", "io server disconnect"}

WebSocketNext ==
  \/ \E userId \in BOOLEAN, o \in {"ok", "throw"} : Connect(userId, o)
  \/ \E s \in SocketIds : OnConnect(s)
  \/ \E s \in SocketIds : OnConnectError(s)
  \/ \E s \in SocketIds : Reconnects(s)
  \/ \E s \in SocketIds, reason \in DisconnectReasons : OnDisconnect(s, reason)
  \/ Disconnect

SpecWebSocket == WebSocketInit /\ [][WebSocketNext]_vars

\* TTSService: calls, timers and the browser's events in any order
TTSInit == RecommenderIdle /\ ServicesIdle

TTSNext ==
  \/ Speak
  \/ StopSpeaking
  \/ \E c \in SpeakIds : performBrowserTTS(c)
  \/ OnStart
  \/ OnEnd
  \/ OnSynthesisFailed
  \/ \E e \in synthEvents : OnCancelled(e)
  \/ \E c \in SpeakIds : StartCheck(c)
  \/ \E c \in SpeakIds : Timeout(c)

SpecTTS == TTSInit /\ [][TTSNext]_vars

\* AIRouter: requests one after the other, with or without a provider named
RouterInit == RecommenderIdle /\ ServicesIdle

RouterNext ==
  \/ \E provider \in Providers \cup {"none"}, due \in BOOLEAN : RouteRequest(provider, due)
  \/ \E o \in {"true", "false", "throw"} : HealthAnswered(o)
  \/ \E o \in {"ok", "error"} : FirstAnswered(o)
  \/ \E o \in {"ok", "error"} : FallbackAnswered(o)

SpecRouter == RouterInit /\ [][RouterNext]_vars

\* calls made one after the other on one engine object over an unchanging
\* store; the first call is kept for comparison with the later ones
RepeatOutcomes == {"ok", "throw"}

RepeatInit == StoreInit /\ EngineIdle /\ FeedbackIdle /\ CalcIdle /\ TraceIdle /\ WeatherIdle /\ SecondIdle /\ ServicesIdle

RepeatNext ==
  \/ /\ \E t \in {"morning", "night"} : GenStart(Weather(20, "clear", 55, 5), t, MaxLimit)
     /\ genTrace' = << >>
     /\ UNCHANGED genFirst
  \/ \E o \in RepeatOutcomes :
       LoadPreferences(o) /\ genTrace' = Append(genTrace, o) /\ UNCHANGED genFirst
  \/ \E o \in RepeatOutcomes :
       LoadActivity(o) /\ genTrace' = Append(genTrace, o) /\ UNCHANGED genFirst
  \/ \E o \in RepeatOutcomes :
       LoadHistory(o) /\ genTrace' = Append(genTrace, o) /\ UNCHANGED genFirst
  \/ \E o \in RepeatOutcomes :
       ScoreAndReturn(o) /\ genTrace' = Append(genTrace, o) /\ UNCHANGED genFirst
  \/ /\ GenReturn
     /\ genFirst' = IF IsSome(genFirst) THEN genFirst
                     ELSE Some([args |-> genArgs, trace |-> genTrace, result |-> genResult])
     /\ genTrace' = << >>

SpecRepeat == RepeatInit /\ [][RepeatNext]_vars

Init == EngineInit

Next == EngineNext \/ FeedbackNext \/ CalcNext

Spec == Init /\ [][Next]_vars

(***************************************************************************)
(* Properties                                                              *)
(***************************************************************************)
GenDone == genPc = "done"
FbDone == fbPc = "done"

\* C1: the list generateRecommendations returns has at most limit items and
\* at least min(limit, candidateCount) items, candidateCount being the
\* number of routes getAllRoutes returned.
C1_LengthWithinLimit ==
  GenDone =>
    /\ Len(genResult) <= genArgs.limit
    /\ Len(genResult) >= Min(genArgs.limit, Len(genRoutes))

\* a call whose catalog is shorter than limit returned every candidate
C1_Witness_ShortCatalog ==
  /\ GenDone
  /\ Len(genRoutes) > 0
  /\ Len(genRoutes) < genArgs.limit
  /\ Len(genResult) = Len(genRoutes)

\* the position of a route in the candidate list of the call
CandidateIndex(id) == CHOOSE k \in 1..Len(genRoutes) : genRoutes[k].id = id

\* C2: the returned list is ordered by confidence_score descending, and two
\* candidates of equal confidence_score keep the order they have in the
\* candidate list.
C2_SortedStable ==
  GenDone =>
    \A i, j \in 1..Len(genResult) :
      i < j =>
        \/ genResult[i].confidence_score > genResult[j].confidence_score
        \/ /\ genResult[i].confidence_score = genResult[j].confidence_score
           /\ CandidateIndex(genResult[i].route.id) < CandidateIndex(genResult[j].route.id)

\* a returned list that holds two different routes of equal confidence_score
C2_Witness_Tie ==
  /\ GenDone
  /\ \E i, j \in 1..Len(genResult) :
       /\ i < j
       /\ genResult[i].route.id # genResult[j].route.id
       /\ genResult[i].confidence_score = genResult[j].confidence_score

UnitInterval(x) == 0 <= x /\ x <= SCALE

\* C3: for every candidate with safety_rating in 0..10 and avg_rating in
\* 0..5, each of the seven sub-scores of the weighted sum and the
\* confidence_score lies in [0,1].
C3_ScoresInUnitInterval ==
  GenDone =>
    \A k \in 1..Len(genRoutes) :
      LET route == genRoutes[k]
          rec == scoreRoute(route, userProfile, runningHistory,
                            genArgs.weather, genArgs.timeOfDay)
      IN  (route.safety_rating \in 0..10 /\ route.avg_rating \in 0..50) =>
            /\ UnitInterval(calculateUserRouteMatch(route, userProfile))
            /\ UnitInterval(calculateHistoryMatch(route, runningHistory))
            /\ UnitInterval(calculateWeatherMatch(route, genArgs.weather))
            /\ UnitInterval(calculateTimeMatch(route, genArgs.timeOfDay))
            /\ UnitInterval(safetyScore(route))
            /\ UnitInterval(popularityScore(route))
            /\ UnitInterval(calculateNoveltyScore(route, runningHistory))
            /\ UnitInterval(rec.confidence_score)

\* C4: a call in which the load of the profile or of the running history
\* failed fails with an error to the caller and returns no list.
C4_LoadFailureSurfaced ==
  (GenDone /\ genLoadFailed) => (genSettled = "rejected" /\ genResult = << >>)

\* C5: when the routes query fails or returns no row, getAllRoutes returns
\* the built-in catalog (at least 3 routes) and raises nothing; when it
\* returns rows, they are returned unchanged.
C5_CatalogFallback ==
  GenDone =>
    /\ genSettled = "resolved"
    /\ IF genRoutesOutcome = "ok" /\ routesTable # << >>
         THEN genRoutes = routesTable
         ELSE genRoutes = getFallbackRoutes /\ Len(genRoutes) >= 3

\* the routes query answered with no row and the built-in catalog was ranked
C5_Witness_EmptyTable ==
  /\ GenDone
  /\ genRoutesOutcome = "ok"
  /\ routesTable = << >>
  /\ Len(genRoutes) >= 3
  /\ Len(genResult) > 0

\* a failed write of the preference row in a submitFeedback call
UpsertFailed == FbDone /\ fbUpsert \in {"error", "throw"}

\* C6 (as claimed): a failed write of the updated preference row is
\* surfaced to the caller of submitFeedback and the stored row stays as it
\* was.
C6_PersistFailureSurfaced ==
  UpsertFailed => (fbSettled = "rejected" /\ user_preferences = fbBefore)

\* C6 (amended): a failed write of the updated preference row is caught and
\* logged, submitFeedback resolves, and the stored row stays as it was.
C6_PersistFailureSwallowed ==
  UpsertFailed => (fbSettled = "resolved" /\ user_preferences = fbBefore)

\* the upsert of a user who had a row failed
C6_Witness_UpsertFailed ==
  /\ UpsertFailed
  /\ IsSome(fbBefore)
  /\ "user_preferences" \in fbWrites

\* the time buckets and weather conditions the services name
TimeBuckets == {"morning", "afternoon", "evening", "night"}
MalformedContext(args) ==
  \/ args.timeOfDay \notin TimeBuckets
  \/ args.weather.condition \notin WeatherConditions
  \/ args.weather.humidity \notin 0..100
  \/ args.weather.windSpeed < 0
  \/ args.weather.temperature \notin (0 - 90)..60

RatingsInRange(f) ==
  /\ f.rating \in 1..5
  /\ f.difficulty \in 0..10
  /\ f.safety \in 0..10
  /\ f.scenery \in 0..10

\* C7: a malformed context given to generateRecommendations, or ratings out
\* of range given to submitFeedback, is rejected before any score is
\* computed and before any write is sent to the store.
C7_InvalidInputRejected ==
  /\ (GenDone /\ MalformedContext(genArgs)) =>
       (genSettled = "rejected" /\ genResult = << >>)
  /\ (FbDone /\ ~RatingsInRange(fbArgs)) =>
       (fbSettled = "rejected" /\ fbWrites = {})

CalcDone == calcOut # None

\* C8: for a prior value in [1,10] and any ratings, calculateNewPreference
\* returns a value in [1,10].
C8_NewPreferenceInRange ==
  (CalcDone /\ calcArgs.currentPreference \in 10..100) =>
    (Val(calcOut).kind = "num" /\ Val(calcOut).num \in 10..100)

\* C8, for the store: a numeric preference column stays within [1,10] over
\* any sequence of submissions.
StoredPreferencesInRange ==
  IsSome(user_preferences) =>
    \A c \in {"difficulty_preference", "safety_importance", "scenery_importance"} :
      Val(user_preferences)[c].kind = "num" => Val(user_preferences)[c].num \in 10..100

\* the blend of the call, in thousandths: old*0.8 + observed*(overall/5)*0.2
Blend == calcArgs.currentPreference * 80 + calcArgs.newRating * calcArgs.overallRating * 40

\* the blend of a prior value in range left [1,10] and the result is 10
C8_Witness_Clamped ==
  /\ CalcDone
  /\ calcArgs.currentPreference \in 10..100
  /\ calcArgs.newRating # 0
  /\ Blend > 10050
  /\ Val(calcOut) = Num(100)

\* C9 (as claimed): for a rated dimension the result is exactly
\* clamp(old*0.8 + observed*(overallRating/5)*0.2, 1, 10).
C9_ExactBlend ==
  (CalcDone /\ calcArgs.newRating # 0) =>
    /\ Val(calcOut).kind = "num"
    /\ Val(calcOut).num * 100 = Max(1000, Min(10000, Blend))

\* C9 (amended): for a rated dimension the result is the blend rounded to
\* the nearest tenth, then clamped to [1,10].
C9_RoundedBlend ==
  (CalcDone /\ calcArgs.newRating # 0) =>
    /\ Val(calcOut).kind = "num"
    /\ \E t \in (0 - 50)..150 :
         /\ t * 100 - 50 <= Blend
         /\ Blend < t * 100 + 50
         /\ Val(calcOut).num = Max(10, Min(100, t))

\* the spec's example: old 5, observed 8, overallRating 5 give 5.6
C9_Witness_Example ==
  /\ CalcDone
  /\ calcArgs = [currentPreference |-> 50, newRating |-> 8, overallRating |-> 5]
  /\ Val(calcOut) = Num(56)

\* the feedback field of each preference column
FeedbackField ==
  [difficulty_preference |-> "difficulty", safety_importance |-> "safety",
   scenery_importance |-> "scenery"]

\* a stored row holds a value in the column (a missing row or a null holds none)
HasValue(stored, column) ==
  IsSome(stored) /\ Val(stored)[column].kind # "null"

C11_SameInputsSameList ==
  (GenDone /\ IsSome(genFirst) /\ genArgs = Val(genFirst).args
     /\ genTrace = Val(genFirst).trace)
    => genResult = Val(genFirst).result

WxDone == IsSome(wxOut)

WithWind(weather, w) == [weather EXCEPT !.windSpeed = w]

\* C12: the weather suitability score of every reading lies in [0, 1], and
\* with temperature, condition and humidity fixed it does not increase when
\* the wind speed increases.
C12_WeatherScoreBoundedMonotone ==
  WxDone =>
    /\ Val(wxOut) >= 0 /\ Val(wxOut) <= SCALE
    /\ \A w \in WindPool :
         w >= wxArgs.windSpeed
           => getWeatherSuitabilityScore(WithWind(wxArgs, w)) <= Val(wxOut)

\* a strong wind scores strictly below a calm one
C12_Witness_StrongWind ==
  /\ WxDone
  /\ wxArgs.windSpeed > 20
  /\ Val(wxOut) > 0
  /\ Val(wxOut) < getWeatherSuitabilityScore(WithWind(wxArgs, 0))

\* the band tables of the specification, in tenths
TemperatureBand(t) ==
  CASE t \in 15..25 -> 10
    [] t \in (10..14) \cup (26..30) -> 8
    [] t \in (5..9) \cup (31..35) -> 6
    [] OTHER -> 3

ConditionTable ==
  [c \in WeatherConditions |->
     CASE c \in {"clear", "sunny", "partly-cloudy"} -> 10
       [] c \in {"cloudy", "overcast"} -> 9
       [] c = "light-rain" -> 4
       [] c \in {"rain", "heavy-rain"} -> 1
       [] c \in {"snow", "fog"} -> 2
       [] OTHER -> 7]

ConditionBand(c) == IF c \in DOMAIN ConditionTable THEN ConditionTable[c] ELSE 7

WindBand(w) == CASE w <= 10 -> 10 [] w > 10 /\ w <= 20 -> 8 [] OTHER -> 5

HumidityBand(h) ==
  CASE h \in 40..70 -> 10
    [] h \in (30..39) \cup (71..80) -> 9
    [] OTHER -> 7

\* x multiplied by k tenths
Tenths(x, k) == ExactDiv(x * k, 10)

\* C13: the weather suitability score is the product of the temperature,
\* condition, wind and humidity multipliers of the band tables; 20 degrees,
\* clear, humidity 55, wind 5 scores 1.0 and the same reading with rain 0.1.
C13_WeatherScoreIsBandProduct ==
  WxDone =>
    /\ Val(wxOut)
         = Tenths(Tenths(Tenths(Tenths(SCALE, TemperatureBand(wxArgs.temperature)),
                                ConditionBand(wxArgs.condition)),
                         WindBand(wxArgs.windSpeed)),
                  HumidityBand(wxArgs.humidity))
    /\ wxArgs = Weather(20, "clear", 55, 5) => Val(wxOut) = SCALE
    /\ wxArgs = Weather(20, "rain", 55, 5) => Val(wxOut) * 10 = SCALE

C13_Witness_RainExample ==
  /\ WxDone
  /\ wxArgs = Weather(20, "rain", 55, 5)
  /\ Val(wxOut) = Pct(10)

\* the seven sub-scores of a returned recommendation, recomputed from the
\* engine's fields and the arguments of the call
SubScores(rec) ==
  << calculateUserRouteMatch(rec.route, userProfile),
     calculateHistoryMatch(rec.route, runningHistory),
     calculateWeatherMatch(rec.route, genArgs.weather),
     calculateTimeMatch(rec.route, genArgs.timeOfDay),
     safetyScore(rec.route),
     popularityScore(rec.route),
     calculateNoveltyScore(rec.route, runningHistory) >>

\* the weights of the aggregate, in hundredths
AggregateWeights == << 25, 20, 20, 15, 10, 5, 5 >>

DotProduct(scores, weights) ==
  SumOver([i \in 1..Len(weights) |-> ExactDiv(scores[i] * weights[i], 100)], Len(weights))

\* C14: the confidence score of every recommendation is the dot product of
\* its seven sub-scores with the weights 0.25, 0.20, 0.20, 0.15, 0.10, 0.05,
\* 0.05, which sum to 1; sub-scores all 1 give 1 and all 0 give 0; score and
\* confidence_score hold the same value.
C14_ConfidenceIsWeightedSum ==
  /\ SumOver(AggregateWeights, Len(AggregateWeights)) = 100
  /\ confidenceScore(SCALE, SCALE, SCALE, SCALE, SCALE, SCALE, SCALE) = SCALE
  /\ confidenceScore(0, 0, 0, 0, 0, 0, 0) = 0
  /\ GenDone =>
       \A i \in 1..Len(genResult) :
         /\ genResult[i].confidence_score = DotProduct(SubScores(genResult[i]), AggregateWeights)
         /\ genResult[i].score = genResult[i].confidence_score

\* a recommendation whose weather and time sub-scores differ
C14_Witness_MixedSubScores ==
  /\ GenDone
  /\ \E i \in 1..Len(genResult) :
       LET sub == SubScores(genResult[i])
       IN  /\ sub[3] # sub[4]
           /\ sub[1] # sub[2]
           /\ genResult[i].score > 0

\* the recommendation the loop of the finished call built for candidate k,
\* in the list or cut off by the slice
Scored(k) ==
  scoreRoute(genRoutes[k], userProfile, runningHistory, genArgs.weather, genArgs.timeOfDay)

\* the archetype tags in priority order, each with whether its condition
\* holds for the recommendation
ArchetypeRules(rec) ==
  << [tag |-> "perfect_match",
      holds |-> rec.reasoning.weather_match /\ rec.reasoning.time_match
                  /\ rec.reasoning.difficulty_match],
     [tag |-> "popular", holds |-> popularityScore(rec.route) > Pct(90)],
     [tag |-> "challenge", holds |-> rec.route.difficulty_level >= 7],
     [tag |-> "exploration", holds |-> rec.reasoning.novelty_factor],
     [tag |-> "safe_night", holds |-> rec.reasoning.safety_factor /\ rec.time_factor = "night"],
     [tag |-> "general", holds |-> TRUE] >>

FirstHolding(rules) ==
  rules[CHOOSE i \in 1..Len(rules) :
          rules[i].holds /\ \A j \in 1..(i - 1) : ~rules[j].holds].tag

\* C15: every recommendation carries one archetype tag, the first of
\* perfect_match, popular, challenge, exploration, safe_night whose condition
\* holds, and general when none holds.
C15_ArchetypeByPriority ==
  GenDone =>
    /\ \A i \in 1..Len(genResult) :
         /\ genResult[i].time_factor = genArgs.timeOfDay
         /\ genResult[i].recommendation_type = FirstHolding(ArchetypeRules(genResult[i]))
    /\ \A k \in 1..Len(genRoutes) :
         Scored(k).recommendation_type = FirstHolding(ArchetypeRules(Scored(k)))

\* a route that is both popular and a challenge is tagged popular, and a
\* route that is new and safe at night is tagged exploration
C15_Witness_TwoConditionsHold ==
  /\ GenDone
  /\ \E i \in 1..Len(genResult) :
       LET rules == ArchetypeRules(genResult[i])
       IN  rules[2].holds /\ rules[3].holds /\ genResult[i].recommendation_type = "popular"

\* the rows of user_preferences the readers hold: the engine's userProfile
\* and the existingPrefs of the two submissions
Snapshots == {user_preferences, userProfile, fbExisting, fb2Existing}

\* a step in which a submission's upsert is answered
UpsertAnswered ==
  \/ fbPc = "upsert" /\ fbPc' = "done"
  \/ fb2Pc = "upsert" /\ fb2Pc' = "done"

\* C16: only the upsert of a feedback submission changes user_preferences
\* (generation and recordUserFeedback never do), and under every interleaving
\* of two submissions, generation and recordUserFeedback the stored row and
\* every row a reader holds carry the three dimensions of one whole update
\* (or of the row first stored), never some dimensions of one update only.
C16_WholeUpdatesOnly ==
  [][ /\ user_preferences' # user_preferences => UpsertAnswered
      /\ \A snap \in Snapshots' : IsSome(snap) => Dimensions(Val(snap)) \in applied'
    ]_vars

\* both submissions read the row before either wrote it, both wrote, and the
\* engine loaded the profile in between
C16_Witness_Interleaved ==
  /\ fbPc = "done" /\ fb2Pc = "done"
  /\ fbExisting = fb2Existing
  /\ fbArgs # fb2Args
  /\ Cardinality(applied) >= 3
  /\ IsSome(userProfile)
  /\ userProfile # user_preferences
  /\ userProfile # fbExisting
  /\ route_recommendations # {}

\* no row, or a row whose difficulty_preference is a band name
DifficultyIsBand(stored) ==
  IsSome(stored) =>
    /\ Val(stored).difficulty_preference.kind = "band"
    /\ Val(stored).difficulty_preference.band \in {"easy", "moderate", "hard"}

\* C17: after a feedback submission on a stored profile whose
\* difficulty_preference is easy, moderate or hard (or on no profile), the
\* stored difficulty_preference is easy, moderate or hard.
C17_DifficultyStaysBand ==
  (FbDone /\ DifficultyIsBand(fbBefore)) => DifficultyIsBand(user_preferences)

\* C18: when the history the engine loaded is empty, the history-match
\* sub-score of every candidate route is 0.5, whatever its distance and
\* difficulty, and that is the value its confidence score is built from.
C18_EmptyHistoryNeutral ==
  (GenDone /\ runningHistory = << >>) =>
    \A k \in 1..Len(genRoutes) :
      /\ calculateHistoryMatch(genRoutes[k], runningHistory) = Pct(50)
      /\ Scored(k).confidence_score
           = DotProduct([SubScores(Scored(k)) EXCEPT ![2] = Pct(50)], AggregateWeights)

\* an empty history was loaded and the candidates differ in distance and in
\* difficulty
C18_Witness_NoHistory ==
  /\ GenDone
  /\ ~genLoadFailed
  /\ runningHistory = << >>
  /\ Len(genResult) > 0
  /\ \E j, k \in 1..Len(genRoutes) :
       /\ genRoutes[j].distance # genRoutes[k].distance
       /\ genRoutes[j].difficulty_level # genRoutes[k].difficulty_level

\* the flags of a recommendation by the thresholds on its sub-scores
FlagsByThreshold(rec) ==
  LET sub == SubScores(rec)
  IN  [weather_match |-> sub[3] > Pct(70),
       time_match |-> sub[4] > Pct(70),
       difficulty_match |-> rec.difficulty_match_score > Pct(60),
       preference_match |-> rec.preference_match_score > Pct(50),
       novelty_factor |-> rec.novelty_score > Pct(80),
       safety_factor |-> sub[5] > Pct(80)]

\* the reasons in their order, each with whether it is given
ReasonRules(rec) ==
  << [label |-> "weather", holds |-> rec.reasoning.weather_match],
     [label |-> "time", holds |-> rec.reasoning.time_match],
     [label |-> "difficulty", holds |-> rec.reasoning.difficulty_match],
     [label |-> "preference", holds |-> rec.reasoning.preference_match],
     [label |-> "novelty", holds |-> rec.reasoning.novelty_factor],
     [label |-> "safety", holds |-> rec.reasoning.safety_factor],
     [label |-> "rated-high", holds |-> popularityScore(rec.route) > Pct(80)],
     [label |-> "scenic", holds |-> rec.route.features.scenic],
     [label |-> "facilities", holds |-> rec.route.features.facilities] >>

IsGiven(rule) == rule.holds

GivenReasons(rules) ==
  LET kept == SelectSeq(rules, IsGiven)
  IN  [i \in 1..Len(kept) |-> kept[i].label]

FlagsAndReasons(rec) ==
  /\ rec.reasoning = FlagsByThreshold(rec)
  /\ rec.difficulty_match_score = SubScores(rec)[1]
  /\ rec.preference_match_score = SubScores(rec)[1]
  /\ rec.novelty_score = SubScores(rec)[7]
  /\ rec.factors = GivenReasons(ReasonRules(rec))

\* C19: the reasoning flags of every recommendation are weather > 0.7,
\* time > 0.7, difficulty score > 0.6, preference score > 0.5, novelty > 0.8
\* and safety > 0.8, and its reason list holds one string per set flag in
\* that order, then the popularity, scenic and facilities observations that
\* apply.
C19_FlagsAndReasons ==
  GenDone =>
    /\ \A i \in 1..Len(genResult) : FlagsAndReasons(genResult[i])
    /\ \A k \in 1..Len(genRoutes) : FlagsAndReasons(Scored(k))

\* a returned recommendation with the weather, time and safety flags set and
\* an observation appended, and another one without the weather flag
C19_Witness_SeveralReasons ==
  /\ GenDone
  /\ \E i \in 1..Len(genResult) :
       /\ genResult[i].reasoning.weather_match
       /\ genResult[i].reasoning.time_match
       /\ genResult[i].reasoning.safety_factor
       /\ Len(genResult[i].factors) >= 5
       /\ genResult[i].factors[Len(genResult[i].factors)] \in {"rated-high", "scenic", "facilities"}

\* the route's time_suitability table has a value for the bucket
HasTimeEntry(route, timeOfDay) ==
  /\ IsSome(route.time_suitability)
  /\ timeOfDay \in DOMAIN Val(route.time_suitability)

\* the three tiers of the lighting fallback
LightingTier(route) ==
  CASE route.lighting_quality = "excellent" -> Pct(80)
    [] route.lighting_quality = "good" -> Pct(60)
    [] OTHER -> Pct(20)

\* C20: the time sub-score of a candidate is the suitability value its table
\* stores for the time bucket when there is one, the lighting fallback when
\* there is none and the bucket is night, and 0.5 otherwise.
C20_TimeScoreIsStoredValue ==
  GenDone =>
    \A k \in 1..Len(genRoutes) :
      LET route == genRoutes[k]
          timeOfDay == genArgs.timeOfDay
          timeMatch == SubScores(Scored(k))[4]
      IN  timeMatch = IF HasTimeEntry(route, timeOfDay)
                        THEN Pct(Val(route.time_suitability)[timeOfDay])
                      ELSE IF timeOfDay = "night" THEN LightingTier(route)
                      ELSE Pct(50)

\* the four factors of the preference match of a route for a stored profile:
\* whether the profile holds the data of the factor, and what the factor adds
MatchFactors(route, p) ==
  LET levelDiff == Abs(p.fitness_level - route.difficulty_level)
  IN  << [present |-> IsSome(p.distance_range),
          term |-> IF ~IsSome(p.distance_range) THEN 0
                   ELSE IF route.distance >= Val(p.distance_range).min
                           /\ route.distance <= Val(p.distance_range).max THEN Pct(25)
                   ELSE IF route.distance < Val(p.distance_range).min
                     THEN (Pct(25) * route.distance) \div Val(p.distance_range).min
                     ELSE (Pct(25) * Val(p.distance_range).max) \div route.distance],
         [present |-> p.terrain_preferences # {},
          term |-> IF route.terrain_type \in p.terrain_preferences THEN Pct(20) ELSE 0],
         [present |-> p.difficulty_preference.kind # "null",
          term |-> IF route.difficulty_level \in difficultyMap(p.difficulty_preference)
                     THEN Pct(20) ELSE 0],
         [present |-> p.fitness_level # 0,
          term |-> CASE levelDiff <= 1 -> Pct(15)
                     [] levelDiff = 2 -> Pct(10)
                     [] levelDiff = 3 -> Pct(5)
                     [] OTHER -> 0] >>

\* C21: for a loaded profile, the preference match of every candidate times
\* the number of factors whose profile data is present equals the sum of
\* the terms of those factors: a factor without data is not counted.
C21_DivisorCountsEvaluatedFactors ==
  (GenDone /\ IsSome(userProfile)) =>
    \A k \in 1..Len(genRoutes) :
      LET f == MatchFactors(genRoutes[k], Val(userProfile))
          evaluated == { i \in 1..4 : f[i].present }
      IN  evaluated # {} =>
            Scored(k).preference_match_score * Cardinality(evaluated)
              = SumOver([i \in 1..4 |-> IF i \in evaluated THEN f[i].term ELSE 0], 4)

\* C22: the preference match of every candidate is at most 0.5, its
\* difficulty_match and preference_match flags are false, and no
\* recommendation is tagged perfect_match.
C22_MatchAtMostHalf ==
  GenDone =>
    /\ \A k \in 1..Len(genRoutes) :
         /\ calculateUserRouteMatch(genRoutes[k], userProfile) <= Pct(50)
         /\ Scored(k).difficulty_match_score <= Pct(50)
         /\ ~Scored(k).reasoning.difficulty_match
         /\ ~Scored(k).reasoning.preference_match
         /\ Scored(k).recommendation_type # "perfect_match"
    /\ \A i \in 1..Len(genResult) :
         /\ ~genResult[i].reasoning.difficulty_match
         /\ ~genResult[i].reasoning.preference_match
         /\ genResult[i].recommendation_type # "perfect_match"

\* a returned route with the weather and time flags set whose four terms add
\* up to more than 0.6: only the division keeps it from perfect_match
C22_Witness_BestFit ==
  /\ GenDone
  /\ IsSome(userProfile)
  /\ \E i \in 1..Len(genResult) :
       LET f == MatchFactors(genResult[i].route, Val(userProfile))
       IN  /\ f[1].term + f[2].term + f[3].term + f[4].term > Pct(60)
           /\ genResult[i].reasoning.weather_match
           /\ genResult[i].reasoning.time_match
           /\ genResult[i].preference_match_score < Pct(20)

\* record id is in the buffer
Buffered(id) == \E i \in 1..Len(locationBuffer) : locationBuffer[i] = id

\* C23: every record passed to batchSaveLocation is in locationBuffer until a
\* successful insert held it: no record is dropped by the buffer reset of a
\* flush that did not insert it.
C23_NoRecordDropped ==
  \A id \in 1..locPushed : Buffered(id) \/ location_history[id] >= 1

\* C24: no record is held by more than one successful insert.
C24_InsertedAtMostOnce ==
  \A id \in 1..locPushed : location_history[id] <= 1

\* C25: an emergency cancelled or resolved while its delayed alert was
\* pending has no alert run afterwards: sendEmergencyAlerts is not executed
\* for its id, no emergency_alerts row is written for it and no one is
\* notified by it, with its data or with those of a later emergency
C25_StoppedEmergencyNeverAlerts ==
  \A id \in emStopped :
    /\ alertRuns[id].pc = "none"
    /\ \A row \in emergency_alerts : row.emergency_event_id # id
    /\ \A message \in notified : message.run # id

\* C26: activeEmergency goes from an id to null only by a cancel or resolve
\* of that very id that succeeded, that is, one that changed the status of
\* its row from active to cancelled or resolved
C26_ClearedOnlyByMatchingClose ==
  [][activeEmergency # 0 /\ activeEmergency' = 0
       => /\ emergency_events[activeEmergency] = "active"
          /\ emergency_events'[activeEmergency] \in {"cancelled", "resolved"}]_vars

\* C27: a WebSocketService has at most one socket that is open, connecting
\* or reconnecting by itself
C27_AtMostOneLiveSocket ==
  \A s, t \in SocketIds : Live(s) /\ Live(t) => s = t

C29_CancelledNotRetried ==
  [][\A e \in synthEvents :
       /\ e \notin synthEvents'
       /\ e.by = "stopSpeaking"
       /\ e.error = "interrupted"
       /\ inProgress(e.utterance)
       => speakCalls'[e.utterance.call].pc # "timer"]_vars

\* C30: every message routeRequest sends goes to the client of the
\* provider it is sent for: the provider the request names, else the
\* preferred one and, after its failure, the other one
C30_SentToTheProviderChosen ==
  \A i \in DOMAIN sent : sent[i].client = sent[i].provider

====
